---- MODULE Spec2Model ----
(***************************************************************************)
(* Model of the session store of goose (crates/goose/src/session/          *)
(* session_manager.rs): the SQLite schema and its migrations, the legacy   *)
(* bootstrap, and the session / conversation / tool-event operations run   *)
(* by concurrent callers over one connection pool.                         *)
(*                                                                         *)
(* SQL NULL and Rust's Option are sequences: <<>> is NULL / None and       *)
(* <<v>> is the value v / Some(v).  Option<Option<T>> nests them.          *)
(***************************************************************************)
EXTENDS Integers, Sequences, FiniteSets, Bags, TLC

(* ------------------------------ bounds --------------------------------- *)

\* callers of the store running in parallel
NumProcs == 2
\* operations started over one run
MaxOps == 2
\* storage faults (I/O errors) the environment injects over one run
MaxFaults == 1
\* the logical clock runs 0..MaxTime, in seconds
MaxTime == 2
\* seconds per calendar day of the logical clock
TicksPerDay == 2
\* longest conversation handed to replace_conversation
MaxConv == 2
\* most keys in the arguments object of a tool call, a few objects aside
MaxArgs == 2

CURRENT_SCHEMA_VERSION == 3

Procs == 1..NumProcs
NULL == <<>>
Some(v) == <<v>>
IsSome(o) == o /= <<>>

(* ------------------------------ schema --------------------------------- *)

Tbl(t) == <<"table", t>>
Col(t, c) == <<"column", t, c>>
Idx(i, t, c) == <<"index", i, t, c>>
PKey(t, c) == <<"pk", t, c>>
FKey(t, c, action) == <<"fk", t, c, "sessions", action>>

Columns(t, cs) == {Col(t, c) : c \in cs}

SchemaVersionTable ==
  {Tbl("schema_version"), PKey("schema_version", "version")}
    \cup Columns("schema_version", {"version", "applied_at"})

SessionsTable ==
  {Tbl("sessions"), PKey("sessions", "id")}
    \cup Columns("sessions",
           {"id", "description", "working_dir", "created_at", "updated_at",
            "extension_data", "total_tokens", "input_tokens", "output_tokens",
            "accumulated_total_tokens", "accumulated_input_tokens",
            "accumulated_output_tokens", "schedule_id", "recipe_json"})

MessagesTable ==
  {Tbl("messages"), PKey("messages", "id"),
   FKey("messages", "session_id", "NO ACTION")}
    \cup Columns("messages",
           {"id", "session_id", "role", "content_json", "created_timestamp",
            "timestamp", "tokens"})

ToolEventsTable ==
  {Tbl("tool_events"), PKey("tool_events", "id"),
   FKey("tool_events", "session_id", "CASCADE")}
    \cup Columns("tool_events",
           {"id", "session_id", "tool_name", "status", "error_message",
            "started_at", "completed_at", "duration_ms"})

CreateTable(name, objs, ine) ==
  [op |-> "create_table", name |-> name, objs |-> objs, if_not_exists |-> ine]
CreateIndex(i, t, c) ==
  [op |-> "create_index", name |-> i, table |-> t, column |-> c]
AddColumn(t, c) ==
  [op |-> "add_column", table |-> t, column |-> c]

\* One DDL statement against schema sch: [ok, schema].
ExecDDL(sch, st) ==
  CASE st.op = "create_table" ->
         IF Tbl(st.name) \in sch
           THEN [ok |-> st.if_not_exists, schema |-> sch]
           ELSE [ok |-> TRUE, schema |-> sch \cup st.objs]
    [] st.op = "create_index" ->
         IF Tbl(st.table) \notin sch
              \/ Col(st.table, st.column) \notin sch
              \/ \E o \in sch : o[1] = "index" /\ o[2] = st.name
           THEN [ok |-> FALSE, schema |-> sch]
           ELSE [ok |-> TRUE,
                 schema |-> sch \cup {Idx(st.name, st.table, st.column)}]
    [] st.op = "add_column" ->
         IF Tbl(st.table) \notin sch \/ Col(st.table, st.column) \in sch
           THEN [ok |-> FALSE, schema |-> sch]
           ELSE [ok |-> TRUE, schema |-> sch \cup {Col(st.table, st.column)}]

\* The statements of a list in order, each on its own (no transaction): the
\* first failure stops the list and keeps what the earlier ones did.
RECURSIVE RunDDL(_, _)
RunDDL(sch, stmts) ==
  IF stmts = <<>> THEN [ok |-> TRUE, schema |-> sch]
  ELSE LET r == ExecDDL(sch, Head(stmts))
       IN  IF r.ok THEN RunDDL(r.schema, Tail(stmts)) ELSE r

\* SessionStorage::create: the DDL of a brand-new database.
create_ddl ==
  << CreateTable("schema_version", SchemaVersionTable, FALSE),
     CreateTable("sessions", SessionsTable, FALSE),
     CreateTable("messages", MessagesTable, FALSE),
     CreateIndex("idx_messages_session", "messages", "session_id"),
     CreateIndex("idx_messages_timestamp", "messages", "timestamp"),
     CreateIndex("idx_sessions_updated", "sessions", "updated_at") >>

\* SessionStorage::apply_migration: the DDL of migration `version`
\* (<<>> with known = FALSE for a version the match does not list).
migration_ddl(version) ==
  CASE version = 1 ->
         << CreateTable("schema_version", SchemaVersionTable, TRUE) >>
    [] version = 2 ->
         << CreateTable("tool_events", ToolEventsTable, FALSE),
            CreateIndex("idx_tool_events_session", "tool_events", "session_id"),
            CreateIndex("idx_tool_events_tool_name", "tool_events", "tool_name"),
            CreateIndex("idx_tool_events_status", "tool_events", "status") >>
    [] version = 3 ->
         << AddColumn("tool_events", "operation_type"),
            AddColumn("tool_events", "file_path"),
            CreateIndex("idx_tool_events_operation", "tool_events",
                        "operation_type"),
            CreateIndex("idx_tool_events_file_path", "tool_events",
                        "file_path") >>
    [] OTHER -> <<>>

\* The versions the match of apply_migration has an arm for.
KnownMigration(version) == version \in {1, 2, 3}

\* A faulty variant: a match whose last arm does nothing and returns Ok
apply_migration_lenient(sch, version) == RunDDL(sch, migration_ddl(version))

\* SessionStorage::apply_migration: the DDL of the version, or the error of
\* the last arm for a version that has none.
apply_migration(sch, version) ==
  IF KnownMigration(version)
    THEN RunDDL(sch, migration_ddl(version))
    ELSE [ok |-> FALSE, schema |-> sch]

\* A faulty variant: the lowest recorded version instead of the highest
get_schema_version_min(sch, log) ==
  IF Tbl("schema_version") \notin sch THEN 0
  ELSE CHOOSE v \in log : \A w \in log : v <= w

\* SessionStorage::get_schema_version over the schema and the version log.
get_schema_version(sch, log) ==
  IF Tbl("schema_version") \notin sch THEN 0
  ELSE CHOOSE v \in log : \A w \in log : w <= v

(* --------------------------- values and codecs -------------------------- *)

\* chrono::Utc::now().format("%Y%m%d") of a clock value: its calendar day.
Day(t) == t \div TicksPerDay

\* A session id is the text <day>_<suffix>.  The suffix text is modelled by
\* the number of its leading zeros and the number its digits denote; legacy
\* names such as 20240101_093000 carry leading zeros, assigned ids do not.
format_id(today, n) == <<today, 0, n>>
\* id LIKE '<today>_%'
LikeDay(id, today) == id[1] = today
\* CAST(SUBSTR(id, 10) AS INTEGER)
SuffixInt(id) == id[3]

\* A path is text plus, possibly, bytes that are not UTF-8.
PathUtf8 == "/w"
PathRaw == "/w<FF>"
Paths == {PathUtf8, PathRaw}
\* Path::to_string_lossy: invalid bytes become U+FFFD.
to_string_lossy(path) == IF path = PathRaw THEN "/w<U+FFFD>" ELSE path

\* serde_json::to_string / from_str (from_str gives None on malformed text).
to_json(v) == <<"json", v>>
from_json(text) ==
  IF Len(text) = 2 /\ text[1] = "json" THEN Some(text[2]) ELSE NULL

\* ExtensionData::default() and the literal '{}' that stands for it.
ExtDefault == "ext_empty"
EmptyObjectText == to_json(ExtDefault)

\* rmcp::model::Role
Roles == {"User", "Assistant"}
\* A faulty variant: every role written as user
role_to_string_user(role) == "user"

\* A faulty variant: the role written as its Debug text, User or Assistant
role_to_string_debug(role) == role

\* role_to_string: Role -> &'static str
role_to_string(role) == IF role = "User" THEN "user" ELSE "assistant"

(* ------------------------------ the tables ------------------------------ *)

\* The rows of the database file.  seq_* are the AUTOINCREMENT high-water
\* marks of sqlite_sequence.
EmptyDb ==
  [sessions |-> {}, messages |-> {}, tool_events |-> {},
   seq_messages |-> 0, seq_tool_events |-> 0]

\* A faulty variant: connections opened with PRAGMA foreign_keys off
ForeignKeysOff == FALSE

\* SqliteConnectOptions::new() enables PRAGMA foreign_keys, and get_pool leaves
\* it on.
ForeignKeysOn == TRUE

HasTable(sch, t) == Tbl(t) \in sch
HasColumn(sch, t, c) == Col(t, c) \in sch
HasFKey(sch, t, action) ==
  ForeignKeysOn /\ FKey(t, "session_id", action) \in sch

SessionIds(d) == {r.id : r \in d.sessions}
SessionMessages(d, sid) == {m \in d.messages : m.session_id = sid}
SessionEvents(d, sid) == {e \in d.tool_events : e.session_id = sid}

SetMax(S) == CHOOSE x \in S : \A y \in S : y <= x

\* A faulty variant: the SELECT MAX without its WHERE id LIKE ?
max_idx_any_day(d, today) ==
  LET sfx == {SuffixInt(r.id) : r \in d.sessions}
  IN  IF sfx = {} THEN 0 ELSE SetMax(sfx)

\* SELECT MAX(CAST(SUBSTR(id, 10) AS INTEGER)) FROM sessions WHERE id LIKE ?
\* and unwrap_or(0).
max_idx(d, today) ==
  LET sfx == {SuffixInt(r.id) : r \in {x \in d.sessions : LikeDay(x.id, today)}}
  IN  IF sfx = {} THEN 0 ELSE SetMax(sfx)

\* The row INSERT INTO sessions (id, description, working_dir,
\* extension_data) VALUES (?, ?, ?, '{}') makes, column defaults included.
NewSessionRow(id, description, working_dir, t) ==
  [id |-> id, description |-> description,
   working_dir |-> to_string_lossy(working_dir),
   created_at |-> t, updated_at |-> t,
   extension_data |-> Some(EmptyObjectText),
   total_tokens |-> NULL, input_tokens |-> NULL, output_tokens |-> NULL,
   accumulated_total_tokens |-> NULL, accumulated_input_tokens |-> NULL,
   accumulated_output_tokens |-> NULL,
   schedule_id |-> NULL, recipe_json |-> NULL]

\* INSERT INTO sessions: the primary key rejects a second row with the id.
InsertSession(sch, d, row) ==
  IF ~HasTable(sch, "sessions") THEN [ok |-> FALSE, err |-> "no_table", db |-> d]
  ELSE IF PKey("sessions", "id") \in sch /\ row.id \in SessionIds(d)
    THEN [ok |-> FALSE, err |-> "constraint", db |-> d]
  ELSE [ok |-> TRUE, err |-> "", db |-> [d EXCEPT !.sessions = @ \cup {row}]]

\* A faulty variant: messages.session_id without REFERENCES sessions(id)
InsertMessageNoReference(sch, d, sid, message, t) ==
  [ok |-> TRUE, err |-> "",
   db |-> [d EXCEPT
             !.messages = @ \cup
               {[id |-> d.seq_messages + 1, session_id |-> sid,
                 role |-> role_to_string(message.role),
                 content_json |-> to_json(message.content),
                 created_timestamp |-> message.created,
                 timestamp |-> t, tokens |-> NULL]},
             !.seq_messages = @ + 1]]

\* INSERT INTO messages (session_id, role, content_json, created_timestamp):
\* id from AUTOINCREMENT, timestamp from CURRENT_TIMESTAMP, tokens NULL.
InsertMessage(sch, d, sid, message, t) ==
  IF ~HasTable(sch, "messages") THEN [ok |-> FALSE, err |-> "no_table", db |-> d]
  ELSE IF HasFKey(sch, "messages", "NO ACTION") /\ sid \notin SessionIds(d)
    THEN [ok |-> FALSE, err |-> "constraint", db |-> d]
  ELSE [ok |-> TRUE, err |-> "",
        db |-> [d EXCEPT
                  !.messages = @ \cup
                    {[id |-> d.seq_messages + 1, session_id |-> sid,
                      role |-> role_to_string(message.role),
                      content_json |-> to_json(message.content),
                      created_timestamp |-> message.created,
                      timestamp |-> t, tokens |-> NULL]},
                  !.seq_messages = @ + 1]]

\* DELETE FROM messages WHERE session_id = ?
DeleteMessages(sch, d, sid) ==
  IF ~HasTable(sch, "messages") THEN [ok |-> FALSE, err |-> "no_table", db |-> d]
  ELSE [ok |-> TRUE, err |-> "",
        db |-> [d EXCEPT !.messages = {m \in @ : m.session_id /= sid}]]

\* DELETE FROM sessions WHERE id = ?: refused while a messages row still
\* references the session (NO ACTION); tool_events rows go with it (CASCADE).
DeleteSessionRow(sch, d, sid) ==
  IF ~HasTable(sch, "sessions") THEN [ok |-> FALSE, err |-> "no_table", db |-> d]
  ELSE IF HasFKey(sch, "messages", "NO ACTION") /\ SessionMessages(d, sid) /= {}
    THEN [ok |-> FALSE, err |-> "constraint", db |-> d]
  ELSE [ok |-> TRUE, err |-> "",
        db |-> [d EXCEPT
                  !.sessions = {r \in @ : r.id /= sid},
                  !.tool_events =
                    IF HasFKey(sch, "tool_events", "CASCADE")
                      THEN {e \in @ : e.session_id /= sid} ELSE @]]

\* UPDATE sessions SET updated_at = datetime('now') WHERE id = ?
TouchSession(sch, d, sid, t) ==
  IF ~HasTable(sch, "sessions") THEN [ok |-> FALSE, err |-> "no_table", db |-> d]
  ELSE [ok |-> TRUE, err |-> "",
        db |-> [d EXCEPT !.sessions =
                  {IF r.id = sid THEN [r EXCEPT !.updated_at = t] ELSE r
                     : r \in @}]]

(* ------------------------- partial session update ----------------------- *)

\* The setters of SessionUpdateBuilder, in the order apply_update lists them.
BuilderFields ==
  << "description", "working_dir", "extension_data", "total_tokens",
     "input_tokens", "output_tokens", "accumulated_total_tokens",
     "accumulated_input_tokens", "accumulated_output_tokens", "schedule_id",
     "recipe" >>

\* SessionUpdateBuilder::new: nothing set.
NewBuilder(sid) ==
  [session_id |-> sid, description |-> NULL, working_dir |-> NULL,
   extension_data |-> NULL, total_tokens |-> NULL, input_tokens |-> NULL,
   output_tokens |-> NULL, accumulated_total_tokens |-> NULL,
   accumulated_input_tokens |-> NULL, accumulated_output_tokens |-> NULL,
   schedule_id |-> NULL, recipe |-> NULL]

\* A setter: self.<field> = Some(value).
Set(builder, field, value) == [builder EXCEPT ![field] = Some(value)]

\* The column a builder field is written to.
ColumnOf(field) == IF field = "recipe" THEN "recipe_json" ELSE field

\* add_update!: the columns of the SET clause, in the order of the macro calls.
UpdateColumns(builder) ==
  LET set == SelectSeq(BuilderFields, LAMBDA f : IsSome(builder[f]))
  IN  [i \in 1..Len(set) |-> ColumnOf(set[i])]

\* The value bound for a set field.
BindValue(builder, field) ==
  LET v == builder[field][1]
  IN  CASE field = "working_dir" -> to_string_lossy(v)
        [] field = "extension_data" -> Some(to_json(v))
        [] field = "recipe" -> IF IsSome(v) THEN Some(to_json(v[1])) ELSE NULL
        [] OTHER -> v

\* A faulty variant: the chain with the binds of input_tokens and output_tokens in
\* each other's place
UpdateBindsSwapped(builder) ==
  LET order == [i \in DOMAIN BuilderFields |->
                  CASE BuilderFields[i] = "input_tokens" -> "output_tokens"
                    [] BuilderFields[i] = "output_tokens" -> "input_tokens"
                    [] OTHER -> BuilderFields[i]]
      set == SelectSeq(order, LAMBDA f : IsSome(builder[f]))
  IN  [i \in 1..Len(set) |-> BindValue(builder, set[i])]

\* The `if let Some(..) = builder.<field> { q = q.bind(..) }` chain: the bound
\* values in the order of the binds.
UpdateBinds(builder) ==
  LET set == SelectSeq(BuilderFields, LAMBDA f : IsSome(builder[f]))
  IN  [i \in 1..Len(set) |-> BindValue(builder, set[i])]

RECURSIVE AssignColumns(_, _, _)
AssignColumns(row, cols, vals) ==
  IF cols = <<>> THEN row
  ELSE AssignColumns([row EXCEPT ![Head(cols)] = Head(vals)],
                     Tail(cols), Tail(vals))

\* A faulty variant: apply_update without its early return, the UPDATE run
\* even when no field is set
apply_update_always(sch, d, builder, t) ==
  IF ~HasTable(sch, "sessions")
    THEN [ok |-> FALSE, err |-> "no_table", db |-> d, sql |-> TRUE]
    ELSE [ok |-> TRUE, err |-> "", sql |-> TRUE,
          db |-> [d EXCEPT !.sessions =
                    {IF r.id = builder.session_id
                       THEN [AssignColumns(r, UpdateColumns(builder),
                                           UpdateBinds(builder))
                               EXCEPT !.updated_at = t]
                       ELSE r : r \in @}]]

\* A faulty variant: apply_update that looks at the number of rows the UPDATE
\* changed and reports a session that is not there
apply_update_found(sch, d, builder, t) ==
  LET r == apply_update_always(sch, d, builder, t)
  IN  IF UpdateColumns(builder) = <<>>
        THEN [ok |-> TRUE, err |-> "", db |-> d, sql |-> FALSE]
      ELSE IF r.ok /\ \A row \in d.sessions : row.id /= builder.session_id
        THEN [ok |-> FALSE, err |-> "not_found", db |-> d, sql |-> TRUE]
      ELSE r

\* SessionStorage::apply_update: UPDATE sessions SET <set columns>,
\* updated_at = datetime('now') WHERE id = ?; nothing at all when no field is
\* set.
apply_update(sch, d, builder, t) ==
  LET cols == UpdateColumns(builder)
      vals == UpdateBinds(builder)
  IN  IF cols = <<>> THEN [ok |-> TRUE, err |-> "", db |-> d, sql |-> FALSE]
      ELSE IF ~HasTable(sch, "sessions")
        THEN [ok |-> FALSE, err |-> "no_table", db |-> d, sql |-> TRUE]
      ELSE [ok |-> TRUE, err |-> "", sql |-> TRUE,
            db |-> [d EXCEPT !.sessions =
                      {IF r.id = builder.session_id
                         THEN [AssignColumns(r, cols, vals)
                                 EXCEPT !.updated_at = t]
                         ELSE r : r \in @}]]

(* ------------------------------ tool events ----------------------------- *)

\* INSERT INTO tool_events (session_id, tool_name, status, operation_type,
\* file_path) VALUES (?, ?, 'running', ?, ?) and last_insert_rowid().
record_tool_start(sch, d, sid, tool_name, operation_type, file_path, t) ==
  IF ~HasTable(sch, "tool_events")
    THEN [ok |-> FALSE, err |-> "no_table", db |-> d, id |-> 0]
  ELSE IF ~HasColumn(sch, "tool_events", "operation_type")
            \/ ~HasColumn(sch, "tool_events", "file_path")
    THEN [ok |-> FALSE, err |-> "no_column", db |-> d, id |-> 0]
  ELSE IF HasFKey(sch, "tool_events", "CASCADE") /\ sid \notin SessionIds(d)
    THEN [ok |-> FALSE, err |-> "constraint", db |-> d, id |-> 0]
  ELSE [ok |-> TRUE, err |-> "", id |-> d.seq_tool_events + 1,
        db |-> [d EXCEPT
                  !.tool_events = @ \cup
                    {[id |-> d.seq_tool_events + 1, session_id |-> sid,
                      tool_name |-> tool_name, status |-> "running",
                      error_message |-> NULL, started_at |-> t,
                      completed_at |-> NULL, duration_ms |-> NULL,
                      operation_type |-> operation_type,
                      file_path |-> file_path]},
                  !.seq_tool_events = @ + 1]]

\* CAST((julianday(datetime('now')) - julianday(started_at)) * 86400000
\*      AS INTEGER)
\* julianday() is a double counting days, so the difference of two times a
\* whole number of seconds apart, scaled to milliseconds, comes out a little
\* above or a little below the whole number, and CAST truncates it: the
\* result is the exact difference or one millisecond less (loss), depending
\* on the two dates.  Equal times give 0.
DurationMs(started_at, t, loss) ==
  IF t = started_at THEN 0 ELSE (t - started_at) * 1000 - loss

\* What the truncation may take from a duration.
TruncationLoss == {0, 1}

\* UPDATE tool_events SET status = ?, error_message = ?, completed_at =
\* datetime('now'), duration_ms = ... WHERE id = ?
record_tool_complete(sch, d, event_id, status, error_message, t, loss) ==
  IF ~HasTable(sch, "tool_events")
    THEN [ok |-> FALSE, err |-> "no_table", db |-> d]
  ELSE [ok |-> TRUE, err |-> "",
        db |-> [d EXCEPT !.tool_events =
                  {IF e.id = event_id
                     THEN [e EXCEPT !.status = status,
                                    !.error_message = error_message,
                                    !.completed_at = Some(t),
                                    !.duration_ms =
                                      Some(DurationMs(e.started_at, t, loss))]
                     ELSE e : e \in @}]]

(* -------------------------------- reads --------------------------------- *)

\* FromRow for Session: the record a sessions row decodes to.
from_row(row) ==
  [id |-> row.id,
   working_dir |-> row.working_dir,
   description |-> row.description,
   created_at |-> row.created_at,
   updated_at |-> row.updated_at,
   extension_data |->
     LET e == IF IsSome(row.extension_data)
                THEN from_json(row.extension_data[1]) ELSE NULL
     IN  IF IsSome(e) THEN e[1] ELSE ExtDefault,
   total_tokens |-> row.total_tokens,
   input_tokens |-> row.input_tokens,
   output_tokens |-> row.output_tokens,
   accumulated_total_tokens |-> row.accumulated_total_tokens,
   accumulated_input_tokens |-> row.accumulated_input_tokens,
   accumulated_output_tokens |-> row.accumulated_output_tokens,
   schedule_id |-> row.schedule_id,
   recipe |-> IF IsSome(row.recipe_json)
                THEN from_json(row.recipe_json[1]) ELSE NULL]

\* A faulty variant: the SELECT without its WHERE id = ?
AllSessionRows(d, id) == d.sessions

\* SELECT ... FROM sessions WHERE id = ?
SessionRowsById(d, id) == {r \in d.sessions : r.id = id}

\* The rows of a session as ORDER BY timestamp may return them: any order
\* that is ascending in timestamp (rows of one second come in either order).
TimestampOrders(rows) ==
  {s \in [1..Cardinality(rows) -> rows] :
     /\ \A i, j \in DOMAIN s : i /= j => s[i] /= s[j]
     /\ \A i, j \in DOMAIN s : i < j => s[i].timestamp <= s[j].timestamp}

\* get_conversation's loop over the rows: rows of any other role are skipped.
RECURSIVE DecodeMessages(_)
DecodeMessages(rows) ==
  IF rows = <<>> THEN <<>>
  ELSE LET r == Head(rows)
       IN  IF r.role \in {"user", "assistant"}
             THEN << [role |-> IF r.role = "user" THEN "User" ELSE "Assistant",
                      created |-> r.created_timestamp,
                      content |-> from_json(r.content_json)[1]] >>
                    \o DecodeMessages(Tail(rows))
             ELSE DecodeMessages(Tail(rows))

\* The rows as ORDER BY updated_at DESC may return them: any order that is
\* descending in updated_at (rows of one second come in either order).
UpdatedOrders(rows) ==
  {s \in [1..Cardinality(rows) -> rows] :
     /\ \A i, j \in DOMAIN s : i /= j => s[i] /= s[j]
     /\ \A i, j \in DOMAIN s : i < j => s[i].updated_at >= s[j].updated_at}

\* The rows as ORDER BY started_at may return them.
StartedOrders(rows) ==
  {s \in [1..Cardinality(rows) -> rows] :
     /\ \A i, j \in DOMAIN s : i /= j => s[i] /= s[j]
     /\ \A i, j \in DOMAIN s : i < j => s[i].started_at <= s[j].started_at}

RECURSIVE SumDurations(_)
SumDurations(rows) ==
  IF rows = {} THEN 0
  ELSE LET e == CHOOSE x \in rows : TRUE
       IN  e.duration_ms[1] + SumDurations(rows \ {e})

\* SELECT AVG(duration_ms) ... WHERE duration_ms IS NOT NULL, and
\* unwrap_or(0.0): the average as the fraction <<sum, count>>, <<0, 1>> when
\* AVG is NULL.
AvgDuration(rows) ==
  LET timed == {e \in rows : IsSome(e.duration_ms)}
  IN  IF timed = {} THEN <<0, 1>>
      ELSE <<SumDurations(timed), Cardinality(timed)>>

\* SessionStorage::get_tool_stats: the ToolStats it may return (one per order
\* the file operations may be read in), or its error.  A SUM over no row is
\* NULL, which decodes to 0.
get_tool_stats(sch, d, session_id) ==
  LET rows == SessionEvents(d, session_id)
      byop == {e \in rows : IsSome(e.operation_type)}
      files == {e \in byop : IsSome(e.file_path)}
  IN  IF ~HasTable(sch, "tool_events")
        THEN {[ok |-> FALSE, err |-> "no_table", stats |-> <<>>]}
      ELSE IF ~HasColumn(sch, "tool_events", "operation_type")
                \/ ~HasColumn(sch, "tool_events", "file_path")
        THEN {[ok |-> FALSE, err |-> "no_column", stats |-> <<>>]}
      ELSE
        {[ok |-> TRUE, err |-> "",
          stats |->
            [total_calls |-> Cardinality(rows),
             successful_calls |->
               Cardinality({e \in rows : e.status = "success"}),
             failed_calls |-> Cardinality({e \in rows : e.status = "error"}),
             cancelled_calls |->
               Cardinality({e \in rows : e.status = "cancelled"}),
             avg_duration_ms |-> AvgDuration(rows),
             calls_by_tool |->
               [t \in {e.tool_name : e \in rows} |->
                  Cardinality({e \in rows : e.tool_name = t})],
             calls_by_operation |->
               [o \in {e.operation_type[1] : e \in byop} |->
                  Cardinality({e \in byop : e.operation_type[1] = o})],
             file_operations |->
               [i \in DOMAIN ops |->
                  [file_path |-> ops[i].file_path[1],
                   operation_type |-> ops[i].operation_type[1],
                   timestamp |-> ops[i].started_at]]]]
           : ops \in StartedOrders(files)}

(* ------------------------------- inputs --------------------------------- *)

Descriptions == {"", "d1"}
Contents == {"c1", "c2"}
MessageInputs ==
  {[role |-> "User", created |-> 7, content |-> "c1"],
   [role |-> "Assistant", created |-> 8, content |-> "c2"]}

RECURSIVE SeqsUpTo(_, _)
SeqsUpTo(S, n) ==
  IF n = 0 THEN {<<>>}
  ELSE LET shorter == SeqsUpTo(S, n - 1)
       IN  shorter \cup {Append(q, x) : q \in shorter, x \in S}

ConversationInputs == SeqsUpTo(MessageInputs, MaxConv)

\* an id no session has
GhostId == <<9, 0, 9>>
\* an event id no event has
GhostEvent == 90 + MaxOps

\* the (status, error_message) pairs callers complete an event with
CompletionInputs ==
  {<<"success", NULL>>, <<"error", Some("boom")>>, <<"cancelled", NULL>>}

\* (tool_name, operation_type, file_path) of record_tool_start
StartInputs ==
  {<<"shell", NULL, NULL>>, <<"text_editor", Some("file_edit"), Some("/t.txt")>>}

\* The builders callers apply: nothing set, each single setter with a value,
\* each nullable setter with an explicit null, and two setters at once.
ValueOf(field) ==
  CASE field = "description" -> "d2"
    [] field = "working_dir" -> PathRaw
    [] field = "extension_data" -> "ext1"
    [] field = "schedule_id" -> Some("sched2")
    [] field = "recipe" -> Some("recipe1")
    [] OTHER -> Some(42)
NullableFields ==
  {"total_tokens", "input_tokens", "output_tokens", "accumulated_total_tokens",
   "accumulated_input_tokens", "accumulated_output_tokens", "schedule_id",
   "recipe"}
BuilderInputs(sid) ==
  {NewBuilder(sid)}
    \cup {Set(NewBuilder(sid), BuilderFields[i], ValueOf(BuilderFields[i]))
            : i \in DOMAIN BuilderFields}
    \cup {Set(NewBuilder(sid), f, NULL) : f \in NullableFields}
    \cup {Set(Set(NewBuilder(sid), "description", "d2"), "total_tokens", NULL),
          Set(Set(NewBuilder(sid), "working_dir", PathUtf8), "schedule_id",
              Some("sched2")),
          Set(Set(NewBuilder(sid), "input_tokens", Some(1)), "output_tokens",
              Some(2))}

(* ---------------- databases and legacy files found at start ------------- *)

OldSessionId == <<0, 0, 1>>

\* A session an earlier run of the program left in the database.
OldSessionRow ==
  [NewSessionRow(OldSessionId, "d1", PathUtf8, 0) EXCEPT
     !.total_tokens = Some(5), !.accumulated_total_tokens = Some(9),
     !.schedule_id = Some("sched1"), !.recipe_json = Some(to_json("recipe0"))]

OldMessageRow ==
  [id |-> 1, session_id |-> OldSessionId, role |-> "user",
   content_json |-> to_json("c0"), created_timestamp |-> 5, timestamp |-> 0,
   tokens |-> NULL]

\* A running event recorded before operation_type and file_path existed.
OldEventRow ==
  [id |-> 1, session_id |-> OldSessionId, tool_name |-> "shell",
   status |-> "running", error_message |-> NULL, started_at |-> 0,
   completed_at |-> NULL, duration_ms |-> NULL, operation_type |-> NULL,
   file_path |-> NULL]

\* The schema of a database at recorded version v < CURRENT_SCHEMA_VERSION:
\* the session and message tables, then the migrations up to v.
RECURSIVE SchemaAt(_)
SchemaAt(v) ==
  IF v = 0
    THEN RunDDL({}, SubSeq(create_ddl, 2, Len(create_ddl))).schema
    ELSE apply_migration(SchemaAt(v - 1), v).schema

\* A second session, with a message and a finished event of its own.
OtherSessionId == <<0, 0, 2>>
OtherSessionRow == NewSessionRow(OtherSessionId, "", PathUtf8, 0)
OtherMessageRow ==
  [OldMessageRow EXCEPT !.id = 2, !.session_id = OtherSessionId,
                        !.role = "assistant"]
OtherEventRow ==
  [OldEventRow EXCEPT !.id = 2, !.session_id = OtherSessionId,
                      !.status = "success", !.completed_at = Some(0),
                      !.duration_ms = Some(0)]

\* A second, failed event of the other session, which took two seconds.
OtherFailedEventRow ==
  [OtherEventRow EXCEPT !.id = 3, !.tool_name = "text_editor",
                        !.status = "error", !.error_message = Some("boom"),
                        !.started_at = -2, !.duration_ms = Some(2000)]

OldDb(v) ==
  [sessions |-> {OldSessionRow, OtherSessionRow},
   messages |-> {OldMessageRow, OtherMessageRow},
   tool_events |-> IF v >= 2
                     THEN {OldEventRow, OtherEventRow, OtherFailedEventRow}
                     ELSE {},
   seq_messages |-> 2, seq_tool_events |-> IF v >= 2 THEN 3 ELSE 0]

OldVersions == 0..(CURRENT_SCHEMA_VERSION - 1)

\* What legacy::list_sessions and legacy::load_session give for the flat
\* files of the session directory: per file, a Session or a load failure.
LegacySession(id, conversation) ==
  [id |-> id, description |-> "legacy", working_dir |-> PathUtf8,
   created_at |-> 0, updated_at |-> 0, extension_data |-> ExtDefault,
   total_tokens |-> Some(3), input_tokens |-> NULL, output_tokens |-> NULL,
   accumulated_total_tokens |-> NULL, accumulated_input_tokens |-> NULL,
   accumulated_output_tokens |-> NULL, schedule_id |-> NULL, recipe |-> NULL,
   conversation |-> conversation]

LegacyA ==
  [load_ok |-> TRUE,
   session |-> LegacySession(<<0, 1, 1>>,
                 Some(<< [role |-> "User", created |-> 5, content |-> "c0"],
                         [role |-> "Assistant", created |-> 6,
                          content |-> "c1"] >>))]
LegacyB == [load_ok |-> TRUE, session |-> LegacySession(<<0, 0, 2>>, NULL)]
LegacyBad == [load_ok |-> FALSE, session |-> LegacySession(<<0, 0, 3>>, NULL)]

LegacyDirs == {<<>>, <<LegacyA, LegacyB>>, <<LegacyBad, LegacyA>>, <<LegacyB>>}

(* -------------------------- tool_classifier.rs --------------------------- *)

\* A text (&str, String) is the sequence of its characters.  The string
\* literals of tool_classifier.rs:
Lit ==
  [create |-> <<"c", "r", "e", "a", "t", "e">>,
   file |-> <<"f", "i", "l", "e">>,
   write |-> <<"w", "r", "i", "t", "e">>,
   edit |-> <<"e", "d", "i", "t">>,
   modify |-> <<"m", "o", "d", "i", "f", "y">>,
   update |-> <<"u", "p", "d", "a", "t", "e">>,
   replace |-> <<"r", "e", "p", "l", "a", "c", "e">>,
   patch |-> <<"p", "a", "t", "c", "h">>,
   read |-> <<"r", "e", "a", "d">>,
   view |-> <<"v", "i", "e", "w">>,
   cat |-> <<"c", "a", "t">>,
   show |-> <<"s", "h", "o", "w">>,
   delete |-> <<"d", "e", "l", "e", "t", "e">>,
   remove |-> <<"r", "e", "m", "o", "v", "e">>,
   rm |-> <<"r", "m">>,
   execute |-> <<"e", "x", "e", "c", "u", "t", "e">>,
   run |-> <<"r", "u", "n">>,
   command |-> <<"c", "o", "m", "m", "a", "n", "d">>,
   shell |-> <<"s", "h", "e", "l", "l">>,
   bash |-> <<"b", "a", "s", "h">>,
   search |-> <<"s", "e", "a", "r", "c", "h">>,
   find |-> <<"f", "i", "n", "d">>,
   query |-> <<"q", "u", "e", "r", "y">>,
   navigate |-> <<"n", "a", "v", "i", "g", "a", "t", "e">>,
   goto |-> <<"g", "o", "t", "o">>,
   open |-> <<"o", "p", "e", "n">>,
   text_editor |-> <<"t", "e", "x", "t", "_", "e", "d", "i", "t", "o", "r">>,
   editor |-> <<"e", "d", "i", "t", "o", "r">>,
   str_replace |-> <<"s", "t", "r", "_", "r", "e", "p", "l", "a", "c", "e">>,
   text_editor_prefix |-> <<"t", "e", "x", "t", "_", "e", "d", "i", "t", "o", "r", "_">>,
   file_prefix |-> <<"f", "i", "l", "e", "_">>]

\* sep: the two separators of a prefixed tool name
DoubleUnderscore == <<"_", "_">>
DoubleColon == <<":", ":">>

\* str::to_lowercase, on the letters the names of the model use
to_lowercase(s) ==
  [i \in DOMAIN s |->
     CASE s[i] = "C" -> "c" [] s[i] = "E" -> "e" [] s[i] = "F" -> "f"
       [] s[i] = "G" -> "g" [] s[i] = "P" -> "p" [] s[i] = "T" -> "t"
       [] OTHER -> s[i]]

\* str::find: the index of the first occurrence of pat in s, 0 for none
find(s, pat) ==
  LET at == {i \in 1..(Len(s) - Len(pat) + 1) :
               SubSeq(s, i, i + Len(pat) - 1) = pat}
  IN  IF at = {} THEN 0 ELSE CHOOSE i \in at : \A j \in at : i <= j

\* str::contains
contains(s, pat) == find(s, pat) /= 0

\* str::split_once: the texts before and after the first occurrence of pat
split_once(s, pat) ==
  LET i == find(s, pat)
  IN  IF i = 0 THEN NULL
      ELSE Some(<<SubSeq(s, 1, i - 1), SubSeq(s, i + Len(pat), Len(s))>>)

\* ToolOperation: the unit variants, and Other(String)
FileCreate == <<"FileCreate">>
FileEdit == <<"FileEdit">>
FileRead == <<"FileRead">>
FileDelete == <<"FileDelete">>
CommandExecute == <<"CommandExecute">>
Search == <<"Search">>
Navigate == <<"Navigate">>
Other(name) == <<"Other", name>>

\* matches!(operation, ToolOperation::Other(_))
IsOther(operation) == operation[1] = "Other"

\* ToolMetadata, and ToolMetadata::default()
ToolMetadata(file_path, command, query) ==
  [file_path |-> file_path, command |-> command, query |-> query]
DefaultMetadata == ToolMetadata(NULL, NULL, NULL)

\* serde_json::Value: a string, or a value of another type
StringValue(s) == <<"String", s>>
NumberValue == <<"Number">>

\* Value::as_str
as_str(v) == IF v[1] = "String" THEN Some(v[2]) ELSE NULL

\* Map::get and Map::contains_key on the arguments object, a function from
\* its keys
get(args, key) == IF key \in DOMAIN args THEN Some(args[key]) ELSE NULL
contains_key(args, key) == key \in DOMAIN args

\* Option::or_else and Option::and_then(|v| v.as_str())
or_else(a, b) == IF IsSome(a) THEN a ELSE b
and_then_as_str(o) == IF IsSome(o) THEN as_str(o[1]) ELSE NULL

\* A faulty variant: the separators tried in the other order
extract_extension_and_name_colon_first(tool_name) ==
  IF IsSome(split_once(tool_name, DoubleColon))
    THEN LET s == split_once(tool_name, DoubleColon)[1]
         IN  [extension |-> Some(s[1]), base_name |-> s[2]]
  ELSE IF IsSome(split_once(tool_name, DoubleUnderscore))
    THEN LET s == split_once(tool_name, DoubleUnderscore)[1]
         IN  [extension |-> Some(s[1]), base_name |-> s[2]]
  ELSE [extension |-> NULL, base_name |-> tool_name]

\* extract_extension_and_name
extract_extension_and_name(tool_name) ==
  IF IsSome(split_once(tool_name, DoubleUnderscore))
    THEN LET s == split_once(tool_name, DoubleUnderscore)[1]
         IN  [extension |-> Some(s[1]), base_name |-> s[2]]
  ELSE IF IsSome(split_once(tool_name, DoubleColon))
    THEN LET s == split_once(tool_name, DoubleColon)[1]
         IN  [extension |-> Some(s[1]), base_name |-> s[2]]
  ELSE [extension |-> NULL, base_name |-> tool_name]

\* A faulty variant: the edit rule tried before the create rule
classify_by_name_edit_first(name) ==
  LET name_lower == to_lowercase(name)
      has(pat) == contains(name_lower, pat)
  IN  IF has(Lit.edit) \/ has(Lit.modify) \/ has(Lit.update)
           \/ has(Lit.replace) \/ has(Lit.patch)
        THEN FileEdit
      ELSE IF has(Lit.create) /\ (has(Lit.file) \/ has(Lit.write))
        THEN FileCreate
      ELSE IF has(Lit.read) \/ has(Lit.view) \/ has(Lit.cat) \/ has(Lit.show)
        THEN FileRead
      ELSE IF has(Lit.delete) \/ has(Lit.remove) \/ has(Lit.rm)
        THEN FileDelete
      ELSE IF has(Lit.execute) \/ has(Lit.run) \/ has(Lit.command)
                \/ has(Lit.shell) \/ has(Lit.bash)
        THEN CommandExecute
      ELSE IF has(Lit.search) \/ has(Lit.find) \/ has(Lit.query)
        THEN Search
      ELSE IF has(Lit.navigate) \/ has(Lit.goto) \/ has(Lit.open)
        THEN Navigate
      ELSE Other(name)

\* classify_by_name
classify_by_name(name) ==
  LET name_lower == to_lowercase(name)
      has(pat) == contains(name_lower, pat)
  IN  IF has(Lit.create) /\ (has(Lit.file) \/ has(Lit.write))
        THEN FileCreate
      ELSE IF has(Lit.edit) \/ has(Lit.modify) \/ has(Lit.update)
                \/ has(Lit.replace) \/ has(Lit.patch)
        THEN FileEdit
      ELSE IF has(Lit.read) \/ has(Lit.view) \/ has(Lit.cat) \/ has(Lit.show)
        THEN FileRead
      ELSE IF has(Lit.delete) \/ has(Lit.remove) \/ has(Lit.rm)
        THEN FileDelete
      ELSE IF has(Lit.execute) \/ has(Lit.run) \/ has(Lit.command)
                \/ has(Lit.shell) \/ has(Lit.bash)
        THEN CommandExecute
      ELSE IF has(Lit.search) \/ has(Lit.find) \/ has(Lit.query)
        THEN Search
      ELSE IF has(Lit.navigate) \/ has(Lit.goto) \/ has(Lit.open)
        THEN Navigate
      ELSE Other(name)

\* classify_by_arguments, the match on the command of an editor tool
EditorCommand(command) ==
  IF command \in {Lit.write, Lit.create} THEN FileCreate
  ELSE IF command \in {Lit.edit, Lit.replace, Lit.str_replace} THEN FileEdit
  ELSE IF command \in {Lit.view, Lit.read} THEN FileRead
  ELSE Other(Lit.text_editor_prefix \o command)

\* classify_by_arguments, the match on the operation or action argument
FileOperation(op) ==
  IF op \in {Lit.create, Lit.write} THEN FileCreate
  ELSE IF op \in {Lit.edit, Lit.modify, Lit.update} THEN FileEdit
  ELSE IF op \in {Lit.read, Lit.view} THEN FileRead
  ELSE IF op \in {Lit.delete, Lit.remove} THEN FileDelete
  ELSE Other(Lit.file_prefix \o op)

\* A faulty variant: the content check tried before the operation argument
classify_by_arguments_content_first(tool_name, arguments) ==
  IF arguments = NULL
    THEN [operation |-> Other(tool_name), metadata |-> DefaultMetadata]
  ELSE
    LET args == arguments[1]
        path == or_else(get(args, "path"),
                        or_else(get(args, "file"), get(args, "filename")))
        op == and_then_as_str(or_else(get(args, "operation"),
                                      get(args, "action")))
        query == and_then_as_str(or_else(get(args, "query"),
                                         get(args, "search")))
        with_path == ToolMetadata(and_then_as_str(path), NULL, NULL)
    IN  IF IsSome(path)
             /\ (contains_key(args, "content") \/ contains_key(args, "text"))
          THEN [operation |-> FileCreate, metadata |-> with_path]
        ELSE IF IsSome(path) /\ IsSome(op)
          THEN [operation |-> FileOperation(op[1]), metadata |-> with_path]
        ELSE IF IsSome(query)
          THEN [operation |-> Search,
                metadata |-> ToolMetadata(
                               IF IsSome(path) THEN and_then_as_str(path)
                               ELSE NULL, NULL, query)]
        ELSE [operation |-> Other(tool_name),
              metadata |-> IF IsSome(path) THEN with_path
                           ELSE DefaultMetadata]

\* classify_by_arguments: the operation and the metadata
classify_by_arguments(tool_name, arguments) ==
  IF arguments = NULL
    THEN [operation |-> Other(tool_name), metadata |-> DefaultMetadata]
  ELSE
    LET args == arguments[1]
        command == and_then_as_str(get(args, "command"))
        path == or_else(get(args, "path"),
                        or_else(get(args, "file"), get(args, "filename")))
        op == and_then_as_str(or_else(get(args, "operation"),
                                      get(args, "action")))
        query == and_then_as_str(or_else(get(args, "query"),
                                         get(args, "search")))
        with_path == ToolMetadata(and_then_as_str(path), NULL, NULL)
    IN  IF (tool_name = Lit.text_editor \/ contains(tool_name, Lit.editor))
             /\ IsSome(command)
          THEN [operation |-> EditorCommand(command[1]),
                metadata |-> ToolMetadata(and_then_as_str(get(args, "path")),
                                          NULL, NULL)]
        ELSE IF tool_name = Lit.shell \/ tool_name = Lit.bash
                  \/ contains(tool_name, Lit.command)
          THEN [operation |-> CommandExecute,
                metadata |-> ToolMetadata(NULL, command, NULL)]
        ELSE IF IsSome(path) /\ IsSome(op)
          THEN [operation |-> FileOperation(op[1]), metadata |-> with_path]
        ELSE IF IsSome(path)
                  /\ (contains_key(args, "content") \/ contains_key(args, "text"))
          THEN [operation |-> FileCreate, metadata |-> with_path]
        ELSE IF IsSome(query)
          THEN [operation |-> Search,
                metadata |-> ToolMetadata(
                               IF IsSome(path) THEN and_then_as_str(path)
                               ELSE NULL, NULL, query)]
        ELSE [operation |-> Other(tool_name),
              metadata |-> IF IsSome(path) THEN with_path
                           ELSE DefaultMetadata]

\* A faulty variant: the aliases tried in the other order
extract_metadata_last_alias(tool_name, arguments) ==
  IF arguments = NULL THEN DefaultMetadata
  ELSE LET args == arguments[1]
       IN  ToolMetadata(
             and_then_as_str(or_else(get(args, "filename"),
                               or_else(get(args, "file"), get(args, "path")))),
             and_then_as_str(or_else(get(args, "cmd"), get(args, "command"))),
             and_then_as_str(or_else(get(args, "search"), get(args, "query"))))

\* extract_metadata
extract_metadata(tool_name, arguments) ==
  IF arguments = NULL THEN DefaultMetadata
  ELSE LET args == arguments[1]
       IN  ToolMetadata(
             and_then_as_str(or_else(get(args, "path"),
                               or_else(get(args, "file"), get(args, "filename")))),
             and_then_as_str(or_else(get(args, "command"), get(args, "cmd"))),
             and_then_as_str(or_else(get(args, "query"), get(args, "search"))))

\* classify_tool: the ClassifiedTool of a tool call
classify_tool(tool_name, arguments) ==
  LET split == extract_extension_and_name(tool_name)
      operation == classify_by_name(split.base_name)
      final == IF IsOther(operation)
                 THEN classify_by_arguments(split.base_name, arguments)
                 ELSE [operation |-> operation,
                       metadata |-> extract_metadata(split.base_name,
                                                     arguments)]
  IN  [original_name |-> tool_name,
       operation |-> final.operation,
       extension |-> split.extension,
       metadata |-> final.metadata]

\* A faulty variant: the operation written as its Debug text, Other as other
metrics_name_debug(self) ==
  LET op == self.operation
  IN
    CASE op = FileCreate -> <<"F", "i", "l", "e", "C", "r", "e", "a", "t", "e">>
      [] op = FileEdit -> <<"F", "i", "l", "e", "E", "d", "i", "t">>
      [] op = FileRead -> <<"F", "i", "l", "e", "R", "e", "a", "d">>
      [] op = FileDelete -> <<"F", "i", "l", "e", "D", "e", "l", "e", "t", "e">>
      [] op = CommandExecute -> <<"C", "o", "m", "m", "a", "n", "d", "E", "x", "e", "c", "u", "t", "e">>
      [] op = Search -> <<"S", "e", "a", "r", "c", "h">>
      [] op = Navigate -> <<"N", "a", "v", "i", "g", "a", "t", "e">>
      [] OTHER -> <<"o", "t", "h", "e", "r">>

\* ClassifiedTool::metrics_name: the fixed token of the operation, the carried
\* name for Other
metrics_name(self) ==
  LET op == self.operation
  IN
    CASE op = FileCreate -> <<"f", "i", "l", "e", "_", "c", "r", "e", "a", "t", "e">>
      [] op = FileEdit -> <<"f", "i", "l", "e", "_", "e", "d", "i", "t">>
      [] op = FileRead -> <<"f", "i", "l", "e", "_", "r", "e", "a", "d">>
      [] op = FileDelete -> <<"f", "i", "l", "e", "_", "d", "e", "l", "e", "t", "e">>
      [] op = CommandExecute -> <<"c", "o", "m", "m", "a", "n", "d", "_", "e", "x", "e", "c", "u", "t", "e">>
      [] op = Search -> <<"s", "e", "a", "r", "c", "h">>
      [] op = Navigate -> <<"n", "a", "v", "i", "g", "a", "t", "e">>
      [] OTHER -> op[2]

\* ClassifiedTool::detailed_name: format!("{}::{}", ext, metrics_name()) with
\* an extension, metrics_name() without
detailed_name(self) ==
  IF self.extension /= NULL
    THEN self.extension[1] \o DoubleColon \o metrics_name(self)
    ELSE metrics_name(self)

\* The tool names the calls of the model carry.
ToolNames ==
  {<<"t", "e", "x", "t", "_", "e", "d", "i", "t", "o", "r">>,
   <<"e", "d", "i", "t", "o", "r">>,
   <<"T", "e", "x", "t", "_", "E", "d", "i", "t", "o", "r">>,
   <<"c", "r", "e", "a", "t", "e", "_", "f", "i", "l", "e">>,
   <<"C", "r", "e", "a", "t", "e", "F", "i", "l", "e">>,
   <<"w", "r", "i", "t", "e", "_", "c", "r", "e", "a", "t", "e">>,
   <<"c", "r", "e", "a", "t", "e">>,
   <<"c", "r", "e", "a", "t", "e", "_", "a", "n", "d", "_", "e", "d", "i", "t", "_", "f", "i", "l", "e">>,
   <<"e", "d", "i", "t", "_", "f", "i", "l", "e">>,
   <<"r", "e", "a", "d", "_", "f", "i", "l", "e">>,
   <<"d", "e", "l", "e", "t", "e", "_", "f", "i", "l", "e">>,
   <<"f", "o", "r", "m", "a", "t">>,
   <<"l", "o", "c", "a", "t", "e">>,
   <<"s", "h", "e", "l", "l">>,
   <<"b", "a", "s", "h">>,
   <<"r", "u", "n", "_", "c", "o", "m", "m", "a", "n", "d">>,
   <<"w", "e", "b", "_", "s", "e", "a", "r", "c", "h">>,
   <<"s", "e", "a", "r", "c", "h", "_", "r", "e", "p", "l", "a", "c", "e">>,
   <<"f", "i", "n", "d">>,
   <<"n", "a", "v", "i", "g", "a", "t", "e">>,
   <<"o", "p", "e", "n", "_", "u", "r", "l">>,
   <<"f", "e", "t", "c", "h">>,
   <<"l", "i", "s", "t">>,
   <<"d", "e", "v", "e", "l", "o", "p", "e", "r", "_", "_", "c", "r", "e", "a", "t", "e", "_", "f", "i", "l", "e">>,
   <<"d", "e", "v", "e", "l", "o", "p", "e", "r", ":", ":", "c", "r", "e", "a", "t", "e", "_", "f", "i", "l", "e">>,
   <<"d", "e", "v", "e", "l", "o", "p", "e", "r", "_", "_", "f", "e", "t", "c", "h">>,
   <<"o", "t", "h", "e", "r", ":", ":", "f", "e", "t", "c", "h">>,
   <<"a", ":", ":", "b", "_", "_", "f", "e", "t", "c", "h">>,
   <<"a", "_", "_", "b", ":", ":", "s", "h", "e", "l", "l">>,
   <<"a", "_", "_", "l", "i", "s", "t", "_", "_", "x">>,
   <<"_", "_", "f", "e", "t", "c", "h">>,
   <<"l", "i", "s", "t", "_", "_">>}

\* The keys the classifier reads, and the values the calls give them.
ArgumentKeys ==
  {"path", "file", "filename", "command", "cmd", "query", "search",
   "operation", "action", "content", "text"}
ArgumentValues(key) ==
  CASE key = "path" -> {StringValue(<<"/", "t">>), NumberValue}
    [] key = "file" -> {StringValue(<<"/", "u">>), NumberValue}
    [] key = "filename" -> {StringValue(<<"/", "v">>), NumberValue}
    [] key = "command" ->
         {StringValue(s) : s \in {Lit.write, Lit.str_replace,
                                  <<"l", "s">>}}
           \cup {NumberValue}
    [] key = "cmd" -> {StringValue(<<"p", "s">>), NumberValue}
    [] key = "query" -> {StringValue(<<"q">>), NumberValue}
    [] key = "search" -> {StringValue(<<"r">>), NumberValue}
    [] key = "operation" ->
         {StringValue(s) : s \in {Lit.create, Lit.edit, Lit.read,
                                  Lit.delete, <<"m", "o", "v", "e">>}}
           \cup {NumberValue}
    [] key = "action" ->
         {StringValue(s) : s \in {Lit.write, Lit.modify, Lit.update,
                                  Lit.view, Lit.remove}}
           \cup {NumberValue}
    [] key = "content" -> {StringValue(<<"x">>), NumberValue}
    [] OTHER -> {StringValue(<<"x">>)}

\* The key sets of the arguments objects: every set of at most MaxArgs
\* keys, and the larger ones that give a file, an operation and a content,
\* or the file under all its aliases.
ArgumentKeySets ==
  {ks \in SUBSET ArgumentKeys : Cardinality(ks) <= MaxArgs}
    \cup {{p, o, c} : p \in {"path", "file", "filename"},
                      o \in {"operation", "action"},
                      c \in {"content", "text"}}
    \cup {{"path", "file", "filename"}}

\* The arguments of a call: none, or an object over one of the key sets.
ArgumentInputs ==
  {NULL} \cup
  {Some(args) : args \in
     UNION {{f \in [keys -> UNION {ArgumentValues(k) : k \in keys}] :
               \A k \in keys : f[k] \in ArgumentValues(k)}
              : keys \in ArgumentKeySets}}

(* ------------------------- model_capabilities.rs ------------------------- *)

\* Keys of MODEL_CAPABILITY_DB, as texts.
ModelKey ==
  [gpt_4o |->
     <<"g", "p", "t", "-", "4", "o">>,
   gpt_3_5_turbo |->
     <<"g", "p", "t", "-", "3", ".", "5", "-", "t", "u", "r", "b",
       "o">>,
   gpt_3_5 |->
     <<"g", "p", "t", "-", "3", ".", "5">>,
   text_curie |->
     <<"t", "e", "x", "t", "-", "c", "u", "r", "i", "e">>]

\* Model names asked about: a dated gpt-4o (tests::test_pattern_matching), a
\* gpt-3.5-turbo variant, a key in capitals, and a name of no pattern
\* (tests::test_unknown_models).
ModelLit ==
  [gpt_4o_dated |->
     <<"g", "p", "t", "-", "4", "o", "-", "2", "0", "2", "4", "-",
       "0", "5", "-", "1", "3">>,
   gpt_3_5_turbo_16k |->
     <<"g", "p", "t", "-", "3", ".", "5", "-", "t", "u", "r", "b",
       "o", "-", "1", "6", "k">>,
   upper_gpt_4o |->
     <<"G", "P", "T", "-", "4", "o">>,
   unknown |->
     <<"u", "n", "k", "n", "o", "w", "n", "-", "m", "o", "d", "e",
       "l", "-", "x", "y", "z">>]

ModelNames ==
  {ModelKey.gpt_4o, ModelKey.text_curie, ModelLit.gpt_4o_dated,
   ModelLit.gpt_3_5_turbo_16k, ModelLit.upper_gpt_4o, ModelLit.unknown}

\* MODEL_CAPABILITY_DB: (supports_tool_calling, supports_code_generation) by
\* key, for the keys the model keeps.
MODEL_CAPABILITY_DB ==
  (ModelKey.gpt_4o :> <<TRUE, TRUE>>)
    @@ (ModelKey.gpt_3_5_turbo :> <<TRUE, TRUE>>)
    @@ (ModelKey.gpt_3_5 :> <<FALSE, TRUE>>)
    @@ (ModelKey.text_curie :> <<FALSE, FALSE>>)

\* HashMap::iter: the entries come in an order the map's hasher decides, and
\* std's hasher is seeded at random for each map; any order of the keys may
\* be the one.
IterationOrders ==
  {o \in [1..Cardinality(DOMAIN MODEL_CAPABILITY_DB)
            -> DOMAIN MODEL_CAPABILITY_DB] :
     \A i, j \in DOMAIN o : o[i] = o[j] => i = j}

\* find_model_capabilities, with the map iterated in the order iter: the
\* exact key first, then the first entry whose key the lowercased name
\* contains.
find_model_capabilities(iter, model_name) ==
  LET model_lower == to_lowercase(model_name)
      hits == {i \in DOMAIN iter :
                 contains(model_lower, to_lowercase(iter[i]))}
  IN  IF model_name \in DOMAIN MODEL_CAPABILITY_DB
        THEN Some(MODEL_CAPABILITY_DB[model_name])
      ELSE IF hits = {} THEN NULL
      ELSE Some(MODEL_CAPABILITY_DB[
                  iter[CHOOSE i \in hits : \A j \in hits : i <= j]])

\* CapabilityStatus of a known model
CapabilityStatus(supported) ==
  IF supported THEN "Supported" ELSE "NotSupported"

\* get_model_capabilities
get_model_capabilities(iter, model_name) ==
  LET found == find_model_capabilities(iter, model_name)
      caps == IF IsSome(found) THEN found[1] ELSE <<FALSE, FALSE>>
      known == IsSome(find_model_capabilities(iter, model_name))
  IN  [model_name |-> model_name,
       tool_calling |->
         IF known THEN CapabilityStatus(caps[1]) ELSE "Unknown",
       code_generation |->
         IF known THEN CapabilityStatus(caps[2]) ELSE "Unknown",
       streaming |-> "Unknown",
       vision |-> "Unknown",
       embeddings |-> "Unknown"]

(* ------------------------------- state ---------------------------------- *)

VARIABLES
  db_file,         \* sessions.db exists
  schema,          \* its tables, columns, keys and indexes
  schema_version,  \* the rows of its schema_version table
  db,              \* its committed rows
  legacy,          \* the legacy flat files of the session directory
  storage,         \* where SessionStorage::new stands
  mig,             \* the migration run_migrations is at
  imp,             \* the legacy file import_legacy is at
  imported_count,  \* import_legacy: files imported
  failed_count,    \* import_legacy: files that failed to load or import
  now,             \* the clock, in seconds
  writer,          \* the caller holding SQLite's write lock, 0 for none
  tx,              \* per caller: the open transaction, if any
  pc,              \* per caller: the statement it is at
  local,           \* per caller: the locals of the running operation
  result,          \* per caller: what its last operation returned
  nops,            \* operations started
  faults,          \* storage faults injected
  created,         \* the ids create_session calls have returned, as a bag
  removed,         \* the ids delete_session has deleted
  cell,            \* SESSION_STORAGE: the handle the process keeps, if set
  tool_call,       \* the tool call handed to classify_tool, if any
  classified,      \* the ClassifiedTool it returned
  names,           \* its metrics_name() and detailed_name(), once asked for
  capabilities,    \* the ModelCapabilities get_model_capabilities returned last
  capability_db    \* MODEL_CAPABILITY_DB once forced: its iteration order

vars ==
  <<db_file, schema, schema_version, db, legacy, storage, mig, imp,
    imported_count, failed_count, now, writer, tx, pc, local, result, nops,
    faults, created, removed, cell, tool_call, classified,
    names, capabilities, capability_db>>

NoLocal == [kind |-> "none"]
\* What an operation returned: ok or the error err, for the arguments arg,
\* with the value val.  n counts the operations the caller has finished.
NoResult ==
  [kind |-> "none", ok |-> TRUE, err |-> "", arg |-> <<>>, val |-> <<>>,
   n |-> 0]
Res(kind, ok, err, arg, val) ==
  [kind |-> kind, ok |-> ok, err |-> err, arg |-> arg, val |-> val, n |-> 0]

\* The session directory the process finds: no sessions.db and any legacy
\* files, or the sessions.db an earlier version of the program left.
DiskInit ==
  \/ /\ db_file = FALSE
     /\ schema = {}
     /\ schema_version = {}
     /\ db = EmptyDb
     /\ legacy \in LegacyDirs
  \/ /\ db_file = TRUE
     /\ \E v \in OldVersions :
          /\ schema = SchemaAt(v)
          /\ schema_version = 1..v
          /\ db = OldDb(v)
     /\ legacy = <<>>

\* Recorded versions this binary has no migration path from: a log that
\* holds a negative version, and the log of a binary one version newer.
ForeignVersions == {-1, CURRENT_SCHEMA_VERSION + 1}

\* A sessions.db whose schema_version log ends at a foreign version.
ForeignDisk ==
  /\ db_file = TRUE
  /\ \E v \in ForeignVersions :
       IF v < 0
         THEN /\ schema = SchemaAt(1)
              /\ schema_version = {v}
              /\ db = OldDb(1)
         ELSE /\ schema = apply_migration(SchemaAt(CURRENT_SCHEMA_VERSION - 1),
                                          CURRENT_SCHEMA_VERSION).schema
              /\ schema_version = 1..v
              /\ db = OldDb(CURRENT_SCHEMA_VERSION)
  /\ legacy = <<>>

\* The process before its first call.
ProcessInit ==
  /\ storage = "uninit"
  /\ mig = 0
  /\ imp = 0
  /\ imported_count = 0
  /\ failed_count = 0
  /\ now = 0
  /\ writer = 0
  /\ tx = [p \in Procs |-> NULL]
  /\ pc = [p \in Procs |-> "idle"]
  /\ local = [p \in Procs |-> NoLocal]
  /\ result = [p \in Procs |-> NoResult]
  /\ nops = 0
  /\ faults = 0
  /\ created = EmptyBag
  /\ removed = {}
  /\ cell = NULL
  /\ tool_call = NULL
  /\ classified = NULL
  /\ names = NULL
  /\ capabilities = NULL
  /\ capability_db = NULL

Init == DiskInit /\ ProcessInit

\* The same, over every sessions.db the process may find.
InitAnyDisk == (DiskInit \/ ForeignDisk) /\ ProcessInit

callers ==
  <<writer, tx, pc, local, result, nops, created, removed, cell, tool_call,
    classified,
    names, capabilities, capability_db>>

(* ----------------------- SessionStorage::new ----------------------------- *)

\* new, db_path missing: create() makes the tables and stamps the target
\* version; import_legacy follows (and returns at once when list_sessions
\* gives nothing).
storage_create ==
  /\ storage = "uninit"
  /\ ~db_file
  /\ db_file' = TRUE
  /\ schema' = RunDDL(schema, create_ddl).schema
  /\ schema_version' = {CURRENT_SCHEMA_VERSION}
  /\ IF legacy = <<>>
       THEN storage' = "ready" /\ imp' = imp
       ELSE storage' = "importing" /\ imp' = 1
  /\ UNCHANGED <<db, legacy, mig, imported_count, failed_count, now, faults>>
  /\ UNCHANGED callers

\* new, db_path present: open() and the head of run_migrations.
storage_open ==
  /\ storage = "uninit"
  /\ db_file
  /\ IF Tbl("schema_version") \in schema /\ schema_version = {}
       THEN \* SELECT MAX(version) gives NULL, which does not decode as i32
            storage' = "failed" /\ mig' = mig
       ELSE LET current_version == get_schema_version(schema, schema_version)
            IN  IF current_version < CURRENT_SCHEMA_VERSION
                  THEN storage' = "migrating" /\ mig' = current_version + 1
                  ELSE storage' = "ready" /\ mig' = mig
  /\ UNCHANGED <<db_file, schema, schema_version, db, legacy, imp,
                 imported_count, failed_count, now, faults>>
  /\ UNCHANGED callers

\* run_migrations, self.apply_migration(version).await?
migrate_apply ==
  /\ storage = "migrating"
  /\ LET r == apply_migration(schema, mig)
     IN  /\ schema' = r.schema
         /\ storage' = IF r.ok THEN "recording" ELSE "failed"
  /\ UNCHANGED <<db_file, schema_version, db, legacy, mig, imp,
                 imported_count, failed_count, now, faults>>
  /\ UNCHANGED callers

\* A faulty variant: the version kept in one row that is overwritten
migrate_record_overwrite ==
  /\ storage = "recording"
  /\ IF Tbl("schema_version") \notin schema
       THEN /\ storage' = "failed"
            /\ UNCHANGED <<schema_version, mig>>
       ELSE /\ schema_version' = {mig}
            /\ IF mig < CURRENT_SCHEMA_VERSION
                 THEN storage' = "migrating" /\ mig' = mig + 1
                 ELSE storage' = "ready" /\ mig' = mig
  /\ UNCHANGED <<db_file, schema, db, legacy, imp, imported_count,
                 failed_count, now, faults>>
  /\ UNCHANGED callers

\* run_migrations, self.update_schema_version(version).await? and the loop.
migrate_record ==
  /\ storage = "recording"
  /\ IF Tbl("schema_version") \notin schema \/ mig \in schema_version
       THEN /\ storage' = "failed"
            /\ UNCHANGED <<schema_version, mig>>
       ELSE /\ schema_version' = schema_version \cup {mig}
            /\ IF mig < CURRENT_SCHEMA_VERSION
                 THEN storage' = "migrating" /\ mig' = mig + 1
                 ELSE storage' = "ready" /\ mig' = mig
  /\ UNCHANGED <<db_file, schema, db, legacy, imp, imported_count,
                 failed_count, now, faults>>
  /\ UNCHANGED callers

\* The sessions row import_legacy_session inserts for a loaded Session.
LegacyRow(session) ==
  [id |-> session.id, description |-> session.description,
   working_dir |-> to_string_lossy(session.working_dir),
   created_at |-> session.created_at, updated_at |-> session.updated_at,
   extension_data |-> Some(to_json(session.extension_data)),
   total_tokens |-> session.total_tokens,
   input_tokens |-> session.input_tokens,
   output_tokens |-> session.output_tokens,
   accumulated_total_tokens |-> session.accumulated_total_tokens,
   accumulated_input_tokens |-> session.accumulated_input_tokens,
   accumulated_output_tokens |-> session.accumulated_output_tokens,
   schedule_id |-> session.schedule_id,
   recipe_json |-> IF IsSome(session.recipe)
                     THEN Some(to_json(session.recipe[1])) ELSE NULL]

\* The inserts of replace_conversation's loop, in order, on the rows d.
RECURSIVE InsertAll(_, _, _, _, _)
InsertAll(sch, d, sid, msgs, t) ==
  IF msgs = <<>> THEN [ok |-> TRUE, err |-> "", db |-> d]
  ELSE LET r == InsertMessage(sch, d, sid, Head(msgs), t)
       IN  IF r.ok THEN InsertAll(sch, r.db, sid, Tail(msgs), t) ELSE r

\* replace_conversation run without interruption: what it commits, or the
\* rows as they were when a statement fails and the transaction is dropped.
replace_conversation(sch, d, sid, conversation, t) ==
  LET del == DeleteMessages(sch, d, sid)
      ins == InsertAll(sch, del.db, sid, conversation, t)
  IN  IF del.ok /\ ins.ok THEN ins
      ELSE [ok |-> FALSE, err |-> IF del.ok THEN ins.err ELSE del.err, db |-> d]

ImportNext ==
  IF imp < Len(legacy)
    THEN storage' = "importing" /\ imp' = imp + 1
    ELSE storage' = "ready" /\ imp' = imp

\* import_legacy's loop, one file: load_session, then import_legacy_session's
\* INSERT INTO sessions on the pool.  A file that does not load, or an insert
\* that fails, is counted and skipped.
import_session_row ==
  /\ storage = "importing"
  /\ LET item == legacy[imp]
         r == InsertSession(schema, db, LegacyRow(item.session))
     IN  \/ /\ ~item.load_ok
            /\ failed_count' = failed_count + 1
            /\ ImportNext
            /\ UNCHANGED <<db, faults, imported_count>>
         \/ /\ item.load_ok /\ r.ok
            /\ db' = r.db
            /\ IF IsSome(item.session.conversation)
                 THEN /\ storage' = "import_conversation" /\ imp' = imp
                      /\ imported_count' = imported_count
                 ELSE /\ ImportNext
                      /\ imported_count' = imported_count + 1
            /\ UNCHANGED <<faults, failed_count>>
         \/ /\ item.load_ok
            /\ ~r.ok \/ faults < MaxFaults
            /\ faults' = IF r.ok THEN faults + 1 ELSE faults
            /\ failed_count' = failed_count + 1
            /\ ImportNext
            /\ UNCHANGED <<db, imported_count>>
  /\ UNCHANGED <<db_file, schema, schema_version, legacy, mig, now>>
  /\ UNCHANGED callers

\* import_legacy_session, self.replace_conversation(&session.id, conversation)
\* in its own transaction; its failure fails the import of this file only.
import_conversation ==
  /\ storage = "import_conversation"
  /\ LET session == legacy[imp].session
         r == replace_conversation(schema, db, session.id,
                                   session.conversation[1], now)
     IN  \/ /\ r.ok
            /\ db' = r.db
            /\ imported_count' = imported_count + 1
            /\ UNCHANGED <<faults, failed_count>>
         \/ /\ ~r.ok \/ faults < MaxFaults
            /\ faults' = IF r.ok THEN faults + 1 ELSE faults
            /\ failed_count' = failed_count + 1
            /\ UNCHANGED <<db, imported_count>>
  /\ ImportNext
  /\ UNCHANGED <<db_file, schema, schema_version, legacy, mig, now>>
  /\ UNCHANGED callers

\* create() fails under a storage fault: at get_pool, before the file is
\* made, or after k of its CREATE statements, the file left behind with
\* what they made (the version row is inserted after the first of them).
storage_create_fault ==
  /\ storage = "uninit"
  /\ ~db_file
  /\ faults < MaxFaults
  /\ faults' = faults + 1
  /\ storage' = "failed"
  /\ \/ UNCHANGED <<db_file, schema, schema_version>>
     \/ /\ db_file' = TRUE
        /\ \E k \in 0..(Len(create_ddl) - 1), stamped \in BOOLEAN :
             /\ k = 0 => ~stamped
             /\ k > 1 => stamped
             /\ schema' = RunDDL(schema, SubSeq(create_ddl, 1, k)).schema
             /\ schema_version' = IF stamped THEN {CURRENT_SCHEMA_VERSION}
                                   ELSE {}
  /\ UNCHANGED <<db, legacy, mig, imp, imported_count, failed_count, now>>
  /\ UNCHANGED callers

\* run_migrations fails under a storage fault, between two statements.
migrate_fault ==
  /\ storage \in {"migrating", "recording"}
  /\ faults < MaxFaults
  /\ faults' = faults + 1
  /\ storage' = "failed"
  /\ UNCHANGED <<db_file, schema, schema_version, db, legacy, mig, imp,
                 imported_count, failed_count, now>>
  /\ UNCHANGED callers

(* ------------------------------- the clock ------------------------------ *)

Tick ==
  /\ now < MaxTime
  /\ now' = now + 1
  /\ UNCHANGED <<db_file, schema, schema_version, db, legacy, storage, mig,
                 imp, imported_count, failed_count, faults>>
  /\ UNCHANGED callers

(* ------------------------- callers of the store ------------------------- *)

store ==
  <<db_file, schema, schema_version, legacy, storage, mig, imp, imported_count,
    failed_count, now, cell, tool_call, classified,
    names, capabilities, capability_db>>

CanStart(p) == storage = "ready" /\ pc[p] = "idle" /\ nops < MaxOps

\* The operation of p returns res.
Return(p, res) ==
  /\ pc' = [pc EXCEPT ![p] = "idle"]
  /\ local' = [local EXCEPT ![p] = NoLocal]
  /\ result' = [result EXCEPT ![p] = [res EXCEPT !.n = result[p].n + 1]]

\* The operation of p goes on at statement l with locals loc.
Goto(p, l, loc) ==
  /\ pc' = [pc EXCEPT ![p] = l]
  /\ local' = [local EXCEPT ![p] = loc]
  /\ result' = result

\* An operation of one statement run on the pool: the statement takes the
\* write lock for its own duration, so it runs when no transaction holds the
\* lock (r is its outcome on the committed rows); it gives up with a busy error
\* when the busy timeout ends first; or the storage fails under it.
OneStatement(p, kind, arg, r, val) ==
  /\ CanStart(p)
  /\ nops' = nops + 1
  /\ \/ /\ writer = 0
        /\ db' = r.db
        /\ Return(p, Res(kind, r.ok, r.err, arg, IF r.ok THEN val ELSE <<>>))
        /\ UNCHANGED faults
     \/ /\ writer /= 0
        /\ Return(p, Res(kind, FALSE, "busy", arg, <<>>))
        /\ UNCHANGED <<db, faults>>
     \/ /\ faults < MaxFaults
        /\ faults' = faults + 1
        /\ Return(p, Res(kind, FALSE, "io", arg, <<>>))
        /\ UNCHANGED db
  /\ UNCHANGED <<writer, tx, created, removed>>
  /\ UNCHANGED store

\* SessionStorage::get_session on the rows d: the Session records it may
\* return (one per order the messages may be read in), none for NotFound.
get_session(d, id, include_messages) ==
  {[session |-> from_row(row),
    conversation |-> IF include_messages
                       THEN Some(DecodeMessages(rows)) ELSE NULL,
    message_count |-> IF include_messages
                        THEN Len(DecodeMessages(rows))
                        ELSE Cardinality(SessionMessages(d, row.id))]
     : row \in SessionRowsById(d, id),
       rows \in IF include_messages
                  THEN TimestampOrders(SessionMessages(d, id)) ELSE {<<>>}}

\* SessionManager::get_session called on its own.
call_get_session(p, id, include_messages) ==
  /\ CanStart(p)
  /\ nops' = nops + 1
  /\ LET found == get_session(db, id, include_messages)
         arg == <<id, include_messages>>
     IN  IF found = {}
           THEN Return(p, Res("get_session", FALSE, "not_found", arg, <<>>))
           ELSE \E s \in found : Return(p, Res("get_session", TRUE, "", arg, s))
  /\ UNCHANGED <<db, writer, tx, faults, created, removed>>
  /\ UNCHANGED store

\* A faulty variant: LEFT JOIN, which keeps the sessions without messages
list_sessions_left_join(d) ==
  {[i \in DOMAIN o |->
      [session |-> from_row(o[i]), conversation |-> NULL,
       message_count |-> Cardinality(SessionMessages(d, o[i].id))]]
     : o \in UpdatedOrders(d.sessions)}

\* SessionStorage::list_sessions on the rows d: sessions INNER JOIN messages
\* GROUP BY s.id gives one row per session that has a message, with
\* COUNT(m.id) as message_count, ORDER BY s.updated_at DESC; each row
\* decodes by FromRow, which leaves the conversation unset.  The lists it
\* may return, one per order.
list_sessions(d) ==
  {[i \in DOMAIN o |->
      [session |-> from_row(o[i]), conversation |-> NULL,
       message_count |-> Cardinality(SessionMessages(d, o[i].id))]]
     : o \in UpdatedOrders({r \in d.sessions :
                               SessionMessages(d, r.id) /= {}})}

\* SessionManager::list_sessions called on its own.
call_list_sessions(p) ==
  /\ CanStart(p)
  /\ nops' = nops + 1
  /\ \E l \in list_sessions(db) :
       Return(p, Res("list_sessions", TRUE, "", <<>>, l))
  /\ UNCHANGED <<db, writer, tx, faults, created, removed>>
  /\ UNCHANGED store

(* create_session: BEGIN; SELECT MAX; INSERT; COMMIT; get_session *)

\* today, pool.begin() and the SELECT MAX(...), which opens the read snapshot.
create_session_select(p, working_dir, description) ==
  /\ CanStart(p)
  /\ nops' = nops + 1
  /\ tx' = [tx EXCEPT ![p] = Some([base |-> db, cur |-> db])]
  /\ Goto(p, "create_insert",
          [kind |-> "create_session", working_dir |-> working_dir,
           description |-> description, today |-> Day(now),
           max_idx |-> max_idx(db, Day(now)), inserted_at |-> 0,
           session_id |-> format_id(Day(now), max_idx(db, Day(now)) + 1)])
  /\ UNCHANGED <<db, writer, faults, created, removed>>
  /\ UNCHANGED store

\* A read transaction may start writing only when no other connection holds
\* the write lock and nothing was committed since its snapshot
\* (SQLITE_BUSY_SNAPSHOT otherwise).
SnapshotCurrent(p) == tx[p][1].base = db

\* The operation of p fails: its transaction, if any, is rolled back.
Fail(p, err) ==
  /\ tx' = [tx EXCEPT ![p] = NULL]
  /\ writer' = IF writer = p THEN 0 ELSE writer
  /\ Return(p, Res(local[p].kind, FALSE, err, local[p], <<>>))
  /\ UNCHANGED <<db, nops, created, removed>>
  /\ UNCHANGED store

\* The INSERT INTO sessions inside the transaction.
create_session_insert(p) ==
  /\ pc[p] = "create_insert"
  /\ writer = 0
  /\ LET r == InsertSession(schema, tx[p][1].cur,
                NewSessionRow(local[p].session_id, local[p].description,
                              local[p].working_dir, now))
     IN  IF SnapshotCurrent(p) /\ r.ok
           THEN /\ tx' = [tx EXCEPT ![p] = Some([@[1] EXCEPT !.cur = r.db])]
                /\ writer' = p
                /\ Goto(p, "create_commit",
                        [local[p] EXCEPT !.inserted_at = now])
                /\ UNCHANGED <<db, nops, created, removed>>
                /\ UNCHANGED store
           ELSE Fail(p, IF SnapshotCurrent(p) THEN r.err ELSE "busy_snapshot")
  /\ UNCHANGED faults

\* tx.commit()
create_session_commit(p) ==
  /\ pc[p] = "create_commit"
  /\ db' = tx[p][1].cur
  /\ tx' = [tx EXCEPT ![p] = NULL]
  /\ writer' = 0
  /\ Goto(p, "create_get", local[p])
  /\ UNCHANGED <<nops, faults, created, removed>>
  /\ UNCHANGED store

\* Self::get_session(&session_id, false), after the commit and outside it.
create_session_get(p) ==
  /\ pc[p] = "create_get"
  /\ LET found == get_session(db, local[p].session_id, FALSE)
         arg == local[p]
     IN  IF found = {}
           THEN /\ Return(p, Res("create_session", FALSE, "not_found", arg, <<>>))
                /\ created' = created
           ELSE \E s \in found :
                  /\ Return(p, Res("create_session", TRUE, "", arg, s))
                  /\ created' = created (+) SetToBag({s.session.id})
  /\ UNCHANGED <<db, writer, tx, nops, faults, removed>>
  /\ UNCHANGED store

(* add_message: INSERT INTO messages; UPDATE sessions SET updated_at *)

add_message_insert(p, session_id, message) ==
  /\ CanStart(p)
  /\ nops' = nops + 1
  /\ writer = 0
  /\ LET r == InsertMessage(schema, db, session_id, message, now)
     IN  /\ db' = r.db
         /\ IF r.ok
              THEN Goto(p, "add_touch",
                        [kind |-> "add_message", session_id |-> session_id,
                         message |-> message])
              ELSE Return(p, Res("add_message", FALSE, r.err,
                                 <<session_id, message>>, <<>>))
  /\ UNCHANGED <<writer, tx, faults, created, removed>>
  /\ UNCHANGED store

add_message_touch(p) ==
  /\ pc[p] = "add_touch"
  /\ writer = 0
  /\ LET r == TouchSession(schema, db, local[p].session_id, now)
     IN  /\ db' = r.db
         /\ Return(p, Res("add_message", r.ok, r.err,
                          <<local[p].session_id, local[p].message>>, <<>>))
  /\ UNCHANGED <<writer, tx, nops, faults, created, removed>>
  /\ UNCHANGED store

(* replace_conversation: BEGIN; DELETE; INSERT per message; COMMIT *)

\* A faulty variant: the DELETE run on the pool instead of on the transaction
replace_delete_on_pool(p, session_id, conversation) ==
  /\ CanStart(p)
  /\ nops' = nops + 1
  /\ writer = 0
  /\ LET r == DeleteMessages(schema, db, session_id)
     IN  /\ db' = r.db
         /\ tx' = [tx EXCEPT ![p] = Some([base |-> r.db, cur |-> r.db])]
         /\ writer' = p
         /\ Goto(p, "replace_insert",
                 [kind |-> "replace_conversation", session_id |-> session_id,
                  conversation |-> conversation, i |-> 1,
                  original |-> SessionMessages(db, session_id)])
  /\ UNCHANGED <<faults, created, removed>>
  /\ UNCHANGED store

\* pool.begin() and DELETE FROM messages WHERE session_id = ? on the
\* transaction, which takes the write lock.
replace_delete(p, session_id, conversation) ==
  /\ CanStart(p)
  /\ nops' = nops + 1
  /\ writer = 0
  /\ LET r == DeleteMessages(schema, db, session_id)
     IN  /\ tx' = [tx EXCEPT ![p] = Some([base |-> db, cur |-> r.db])]
         /\ writer' = p
         /\ Goto(p, "replace_insert",
                 [kind |-> "replace_conversation", session_id |-> session_id,
                  conversation |-> conversation, i |-> 1,
                  original |-> SessionMessages(db, session_id)])
  /\ UNCHANGED <<db, faults, created, removed>>
  /\ UNCHANGED store

\* One INSERT INTO messages of the loop, on the transaction.
replace_insert(p) ==
  /\ pc[p] = "replace_insert"
  /\ local[p].i <= Len(local[p].conversation)
  /\ LET r == InsertMessage(schema, tx[p][1].cur, local[p].session_id,
                            local[p].conversation[local[p].i], now)
     IN  IF r.ok
           THEN /\ tx' = [tx EXCEPT ![p] = Some([@[1] EXCEPT !.cur = r.db])]
                /\ Goto(p, "replace_insert", [local[p] EXCEPT !.i = @ + 1])
                /\ UNCHANGED <<db, writer, nops, created, removed>>
                /\ UNCHANGED store
           ELSE Fail(p, r.err)
  /\ UNCHANGED faults

\* tx.commit()
replace_commit(p) ==
  /\ pc[p] = "replace_insert"
  /\ local[p].i > Len(local[p].conversation)
  /\ db' = tx[p][1].cur
  /\ tx' = [tx EXCEPT ![p] = NULL]
  /\ writer' = 0
  /\ Return(p, Res("replace_conversation", TRUE, "",
                   <<local[p].session_id, local[p].conversation>>, <<>>))
  /\ UNCHANGED <<nops, faults, created, removed>>
  /\ UNCHANGED store

(* delete_session: SELECT EXISTS; DELETE FROM messages; DELETE FROM sessions *)

\* A faulty variant: delete_session without its SELECT EXISTS check
delete_session_unchecked(p, session_id) ==
  /\ CanStart(p)
  /\ nops' = nops + 1
  /\ Goto(p, "delete_messages",
          [kind |-> "delete_session", session_id |-> session_id,
           before |-> SessionMessages(db, session_id)])
  /\ UNCHANGED <<db, writer, tx, faults, created, removed>>
  /\ UNCHANGED store

\* SELECT EXISTS(SELECT 1 FROM sessions WHERE id = ?) and the test on it.
\* before keeps the messages the session has at the call, for reference.
delete_session_exists(p, session_id) ==
  /\ CanStart(p)
  /\ nops' = nops + 1
  /\ IF session_id \in SessionIds(db)
       THEN Goto(p, "delete_messages",
                 [kind |-> "delete_session", session_id |-> session_id,
                  before |-> SessionMessages(db, session_id)])
       ELSE Return(p, Res("delete_session", FALSE, "not_found", session_id, <<>>))
  /\ UNCHANGED <<db, writer, tx, faults, created, removed>>
  /\ UNCHANGED store

delete_session_messages(p) ==
  /\ pc[p] = "delete_messages"
  /\ writer = 0
  /\ LET r == DeleteMessages(schema, db, local[p].session_id)
     IN  /\ db' = r.db
         /\ IF r.ok
              THEN Goto(p, "delete_session", local[p])
              ELSE Return(p, Res("delete_session", FALSE, r.err,
                                 local[p].session_id, <<>>))
  /\ UNCHANGED <<writer, tx, nops, faults, created, removed>>
  /\ UNCHANGED store

delete_session_row(p) ==
  /\ pc[p] = "delete_session"
  /\ writer = 0
  /\ LET r == DeleteSessionRow(schema, db, local[p].session_id)
     IN  /\ db' = r.db
         /\ removed' = IF r.ok THEN removed \cup {local[p].session_id}
                       ELSE removed
         /\ Return(p, Res("delete_session", r.ok, r.err,
                          local[p].session_id, <<>>))
  /\ UNCHANGED <<writer, tx, nops, faults, created>>
  /\ UNCHANGED store

(* operations of one statement *)

call_apply_update(p, builder) ==
  LET r == apply_update(schema, db, builder, now)
  IN  /\ CanStart(p)
      /\ r.sql
      /\ OneStatement(p, "apply_update", builder, r, <<>>)

\* apply() with no field set returns Ok(()) before any SQL.
call_apply_nothing(p, builder) ==
  /\ CanStart(p)
  /\ ~apply_update(schema, db, builder, now).sql
  /\ nops' = nops + 1
  /\ Return(p, Res("apply_update", TRUE, "", builder, <<>>))
  /\ UNCHANGED <<db, writer, tx, faults, created, removed>>
  /\ UNCHANGED store

call_record_tool_start(p, session_id, tool_name, operation_type, file_path) ==
  LET r == record_tool_start(schema, db, session_id, tool_name,
                             operation_type, file_path, now)
  IN  OneStatement(p, "record_tool_start",
                   <<session_id, tool_name, operation_type, file_path>>,
                   r, r.id)

call_record_tool_complete(p, event_id, status, error_message, loss) ==
  LET r == record_tool_complete(schema, db, event_id, status, error_message,
                                now, loss)
  IN  OneStatement(p, "record_tool_complete",
                   <<event_id, status, error_message>>, r, <<>>)

(* get_tool_stats: five SELECTs on the pool, one after the other *)

\* The fields of ToolStats each SELECT of get_tool_stats gives, in the order
\* of the SELECTs.
StatsSelects ==
  << {"total_calls", "successful_calls", "failed_calls", "cancelled_calls"},
     {"avg_duration_ms"},
     {"calls_by_tool"},
     {"calls_by_operation"},
     {"file_operations"} >>

\* The ToolStats under construction, before the first SELECT.
NoStats ==
  [total_calls |-> 0, successful_calls |-> 0, failed_calls |-> 0,
   cancelled_calls |-> 0, avg_duration_ms |-> <<0, 1>>,
   calls_by_tool |-> <<>>, calls_by_operation |-> <<>>,
   file_operations |-> <<>>]

\* The values st with the fields of SELECT k as read now.
StatsSelected(st, read, k) ==
  [f \in DOMAIN st |-> IF f \in StatsSelects[k] THEN read[f] ELSE st[f]]

\* SessionManager::get_tool_stats: the call and the first SELECT, the counts.
call_get_tool_stats(p, session_id) ==
  /\ CanStart(p)
  /\ nops' = nops + 1
  /\ \E r \in get_tool_stats(schema, db, session_id) :
       IF r.ok
         THEN Goto(p, "stats_select",
                   [kind |-> "get_tool_stats", session_id |-> session_id,
                    select |-> 2,
                    stats |-> StatsSelected(NoStats, r.stats, 1)])
         ELSE Return(p, Res("get_tool_stats", FALSE, r.err, session_id, <<>>))
  /\ UNCHANGED <<db, writer, tx, faults, created, removed>>
  /\ UNCHANGED store

\* The next SELECT, on the rows as they are now; after the last one the
\* ToolStats is returned.
get_tool_stats_select(p) ==
  /\ pc[p] = "stats_select"
  /\ LET k == local[p].select
     IN  \E r \in get_tool_stats(schema, db, local[p].session_id) :
           LET st == StatsSelected(local[p].stats, r.stats, k)
           IN  IF k < Len(StatsSelects)
                 THEN Goto(p, "stats_select",
                           [local[p] EXCEPT !.select = k + 1, !.stats = st])
                 ELSE Return(p, Res("get_tool_stats", TRUE, "",
                                    local[p].session_id, st))
  /\ UNCHANGED <<db, writer, tx, nops, faults, created, removed>>
  /\ UNCHANGED store

(* SessionManager::maybe_update_description *)

\* providers::base::MSG_COUNT_FOR_SESSION_NAME_GENERATION. The constant is
\* imported from a module outside the sources at hand; the model gives it a
\* value that sessions of its conversations fall below, on and above.
MSG_COUNT_FOR_SESSION_NAME_GENERATION == 1

\* The names provider.generate_session_name may return.
GeneratedNames == {"g1"}

\* conversation.messages().iter().filter(|m| matches!(m.role, Role::User))
\* .count()
user_message_count(conversation) ==
  Len(SelectSeq(conversation, LAMBDA m : m.role = "User"))

\* if user_message_count <= MSG_COUNT_FOR_SESSION_NAME_GENERATION
needs_session_name(count) ==
  count <= MSG_COUNT_FOR_SESSION_NAME_GENERATION

\* get_session(id, true), the count of the user messages, and the test on
\* it: on to the provider, or Ok(()) at once.
describe_get_session(p, id) ==
  /\ CanStart(p)
  /\ nops' = nops + 1
  /\ LET found == get_session(db, id, TRUE)
     IN  IF found = {}
           THEN Return(p, Res("maybe_update_description", FALSE, "not_found",
                              id, <<>>))
           ELSE \E s \in found :
                  LET count == user_message_count(s.conversation[1])
                  IN  IF needs_session_name(count)
                        THEN Goto(p, "generate_session_name",
                                  [kind |-> "maybe_update_description",
                                   session_id |-> id,
                                   user_message_count |-> count,
                                   description |-> NULL])
                        ELSE Return(p, Res("maybe_update_description", TRUE,
                                           "", id, count))
  /\ UNCHANGED <<db, writer, tx, faults, created, removed>>
  /\ UNCHANGED store

\* provider.generate_session_name(&conversation).await?: a name, or the
\* provider's error.
describe_generate(p) ==
  /\ pc[p] = "generate_session_name"
  /\ \/ \E d \in GeneratedNames :
          Goto(p, "apply_description", [local[p] EXCEPT !.description = Some(d)])
     \/ Return(p, Res("maybe_update_description", FALSE, "provider",
                      local[p].session_id, <<>>))
  /\ UNCHANGED <<db, writer, tx, nops, faults, created, removed>>
  /\ UNCHANGED store

\* update_session(id).description(description).apply(): the UPDATE, run on
\* the pool.
describe_apply(p) ==
  /\ pc[p] = "apply_description"
  /\ LET id == local[p].session_id
         r == apply_update(schema, db,
                           Set(NewBuilder(id), "description",
                               local[p].description[1]), now)
     IN  \/ /\ writer = 0
            /\ db' = r.db
            /\ Return(p, Res("maybe_update_description", r.ok, r.err, id,
                             local[p].user_message_count))
         \/ /\ writer /= 0
            /\ Return(p, Res("maybe_update_description", FALSE, "busy", id,
                             <<>>))
            /\ UNCHANGED db
  /\ UNCHANGED <<writer, tx, nops, faults, created, removed>>
  /\ UNCHANGED store

(* what the environment does to a statement *)

\* A statement of a running operation waits for the write lock until the busy
\* timeout ends, and then fails.
statement_busy(p) ==
  /\ pc[p] \in {"create_insert", "add_touch", "delete_messages",
                "delete_session"}
  /\ writer \notin {0, p}
  /\ Fail(p, "busy")
  /\ UNCHANGED faults

\* The storage fails (an I/O error) under the next statement of a running
\* operation.
statement_fault(p) ==
  /\ pc[p] \notin {"idle", "instance", "instance_init"}
  /\ faults < MaxFaults
  /\ faults' = faults + 1
  /\ Fail(p, "io")

(* ------------------------------ the system ------------------------------ *)

StoreInit ==
  \/ storage_create
  \/ storage_open
  \/ migrate_apply
  \/ migrate_record
  \/ import_session_row
  \/ import_conversation

(* classify_tool, called on a tool call *)

\* One tool call is classified.
Classify ==
  /\ tool_call = NULL
  /\ \E tool_name \in ToolNames, arguments \in ArgumentInputs :
       /\ tool_call' = Some([tool_name |-> tool_name,
                              arguments |-> arguments])
       /\ classified' = Some(classify_tool(tool_name, arguments))
  /\ UNCHANGED <<db_file, schema, schema_version, db, legacy, storage, mig,
                 imp, imported_count, failed_count, now, faults>>
  /\ UNCHANGED <<writer, tx, pc, local, result, nops, created, removed, cell,
                 names, capabilities, capability_db>>

\* The metrics name and the detailed name of the classified call are asked
\* for.
MetricsName ==
  /\ classified /= NULL
  /\ names = NULL
  /\ names' = Some([metrics_name |-> metrics_name(classified[1]),
                    detailed_name |-> detailed_name(classified[1])])
  /\ UNCHANGED <<db_file, schema, schema_version, db, legacy, storage, mig,
                 imp, imported_count, failed_count, now, faults>>
  /\ UNCHANGED <<writer, tx, pc, local, result, nops, created, removed, cell,
                 tool_call, classified, capabilities,
                 capability_db>>

(* get_model_capabilities, called on a model name *)

\* The first call of a process forces MODEL_CAPABILITY_DB, whose iteration
\* order is then fixed for that process.
GetModelCapabilities ==
  \E model_name \in ModelNames :
    \E iter \in IF capability_db = NULL THEN IterationOrders
                ELSE {capability_db[1]} :
      /\ capability_db' = Some(iter)
      /\ capabilities' = Some(get_model_capabilities(iter, model_name))
      /\ UNCHANGED <<db_file, schema, schema_version, db, legacy, storage,
                     mig, imp, imported_count, failed_count, now, faults>>
      /\ UNCHANGED <<writer, tx, pc, local, result, nops, created, removed,
                     cell, tool_call, classified, names>>

InitFault ==
  \/ storage_create_fault
  \/ migrate_fault

(* SessionManager::instance: SESSION_STORAGE.get_or_try_init(new) *)

\* The call of instance().
instance_call(p) ==
  /\ pc[p] = "idle"
  /\ nops < MaxOps
  /\ nops' = nops + 1
  /\ Goto(p, "instance", [kind |-> "instance"])
  /\ UNCHANGED <<db, writer, tx, faults, created, removed>>
  /\ UNCHANGED store

\* get_or_try_init finds the cell set: the handle in it is returned.
instance_get(p) ==
  /\ pc[p] = "instance"
  /\ cell /= NULL
  /\ Return(p, Res("instance", TRUE, "", <<>>, cell[1]))
  /\ UNCHANGED <<db, writer, tx, nops, faults, created, removed>>
  /\ UNCHANGED store

\* A faulty variant: the initializer run without the cell's permit
instance_acquire_unguarded(p) ==
  /\ pc[p] = "instance"
  /\ cell = NULL
  /\ storage' = "uninit"
  /\ mig' = 0 /\ imp' = 0 /\ imported_count' = 0 /\ failed_count' = 0
  /\ Goto(p, "instance_init", local[p])
  /\ UNCHANGED <<db_file, schema, schema_version, db, legacy, now, cell>>
  /\ UNCHANGED <<writer, tx, nops, faults, created, removed, tool_call,
                 classified,
    names, capabilities, capability_db>>

\* get_or_try_init finds the cell empty and takes its permit, which one
\* caller holds at a time; SessionStorage::new starts.
instance_acquire(p) ==
  /\ pc[p] = "instance"
  /\ cell = NULL
  /\ \A q \in Procs : pc[q] /= "instance_init"
  /\ storage' = "uninit"
  /\ mig' = 0 /\ imp' = 0 /\ imported_count' = 0 /\ failed_count' = 0
  /\ Goto(p, "instance_init", local[p])
  /\ UNCHANGED <<db_file, schema, schema_version, db, legacy, now, cell>>
  /\ UNCHANGED <<writer, tx, nops, faults, created, removed, tool_call,
                 classified,
    names, capabilities, capability_db>>

\* new() returned Ok: the handle is put in the cell and returned.  The
\* handle is named after the caller whose new() made it.
instance_set(p) ==
  /\ pc[p] = "instance_init"
  /\ storage = "ready"
  /\ cell' = Some(p)
  /\ Return(p, Res("instance", TRUE, "", <<>>, p))
  /\ UNCHANGED <<db_file, schema, schema_version, db, legacy, storage, mig,
                 imp, imported_count, failed_count, now>>
  /\ UNCHANGED <<writer, tx, nops, faults, created, removed, tool_call,
                 classified,
    names, capabilities, capability_db>>

\* new() returned Err: the permit is given back, the cell stays empty, and
\* the error is returned.
instance_fail(p) ==
  /\ pc[p] = "instance_init"
  /\ storage = "failed"
  /\ Return(p, Res("instance", FALSE, "init", <<>>, <<>>))
  /\ UNCHANGED <<db, writer, tx, nops, faults, created, removed>>
  /\ UNCHANGED store

\* SessionStorage::new run by the caller that holds the permit.
instance_new(p) ==
  /\ pc[p] = "instance_init"
  /\ StoreInit \/ InitFault

Instance(p) ==
  \/ instance_call(p)
  \/ instance_get(p)
  \/ instance_acquire(p)
  \/ instance_new(p)
  \/ instance_set(p)
  \/ instance_fail(p)

\* The process ends, with no call running, and another starts later on the
\* same session directory: the statics (the cell, the capability
\* table) and all values held are gone; what was returned before stays known.
Restart ==
  /\ storage /= "uninit"
  /\ \A p \in Procs : pc[p] = "idle"
  /\ storage' = "uninit"
  /\ mig' = 0 /\ imp' = 0 /\ imported_count' = 0 /\ failed_count' = 0
  /\ cell' = NULL
  /\ writer' = 0
  /\ tx' = [p \in Procs |-> NULL]
  /\ result' = [p \in Procs |-> NoResult]
  /\ capability_db' = NULL
  /\ UNCHANGED <<db_file, schema, schema_version, db, legacy, now, pc, local,
                 nops, faults, created, removed, tool_call, classified,
                 names, capabilities>>

SessionInputs == SessionIds(db) \cup {GhostId}
EventInputs == {e.id : e \in db.tool_events} \cup {GhostEvent}

CreateSession(p) ==
  \/ \E wd \in Paths, d \in Descriptions : create_session_select(p, wd, d)
  \/ create_session_insert(p)
  \/ create_session_commit(p)
  \/ create_session_get(p)

GetSession(p) ==
  \E id \in SessionInputs, inc \in BOOLEAN : call_get_session(p, id, inc)

AddMessage(p) ==
  \/ \E id \in SessionInputs, m \in MessageInputs : add_message_insert(p, id, m)
  \/ add_message_touch(p)

ReplaceConversation(p) ==
  \/ \E id \in SessionInputs, c \in ConversationInputs : replace_delete(p, id, c)
  \/ replace_insert(p)
  \/ replace_commit(p)

DeleteSession(p) ==
  \/ \E id \in SessionInputs : delete_session_exists(p, id)
  \/ delete_session_messages(p)
  \/ delete_session_row(p)

\* update_session(id)...apply(), every builder
UpdateSession(p) ==
  \E id \in SessionInputs : \E b \in BuilderInputs(id) :
    \/ call_apply_update(p, b)
    \/ call_apply_nothing(p, b)

RecordToolStart(p) ==
  \E id \in SessionInputs, s \in StartInputs :
    call_record_tool_start(p, id, s[1], s[2], s[3])

RecordToolComplete(p) ==
  \E e \in EventInputs, c \in CompletionInputs, loss \in TruncationLoss :
    call_record_tool_complete(p, e, c[1], c[2], loss)

GetToolStats(p) ==
  \/ \E id \in SessionInputs : call_get_tool_stats(p, id)
  \/ get_tool_stats_select(p)

ListSessions(p) == call_list_sessions(p)

MaybeUpdateDescription(p) ==
  \/ \E id \in SessionInputs : describe_get_session(p, id)
  \/ describe_generate(p)
  \/ describe_apply(p)

Environment(p) ==
  \/ statement_busy(p)
  \/ statement_fault(p)

\* Every operation, every input.
Next ==
  \/ Tick
  \/ Restart
  \/ GetModelCapabilities
  \/ \E p \in Procs :
       \/ Instance(p)
       \/ CreateSession(p)
       \/ GetSession(p)
       \/ AddMessage(p)
       \/ ReplaceConversation(p)
       \/ DeleteSession(p)
       \/ UpdateSession(p)
       \/ RecordToolStart(p)
       \/ RecordToolComplete(p)
       \/ GetToolStats(p)
       \/ ListSessions(p)
       \/ MaybeUpdateDescription(p)
       \/ Environment(p)
  \/ Classify
  \/ MetricsName

Spec == InitAnyDisk /\ [][Next]_vars

(* The specifications below keep the callers to the operations of one part   *)
(* of the store, so that each is explored in full. Where the callers' first  *)
(* instance() call is not what is looked at, the initialization it runs is   *)
(* taken as a step of its own ahead of the callers' operations.              *)

\* Initialization alone: create or open, migrations, legacy import.
NextStart == StoreInit \/ Tick
SpecStart == Init /\ [][NextStart]_vars

\* update_session(id).description(..).apply(): renaming a session, the one
\* update callers of the other parts make.
RenameSession(p) ==
  \E id \in SessionInputs :
    call_apply_update(p, Set(NewBuilder(id), "description", "d2"))

\* The process-wide handle: concurrent instance() calls over every disk,
\* with storage faults, over the lives of several processes.
NextInstance ==
  \/ Restart
  \/ \E p \in Procs : Instance(p)
SpecInstance == InitAnyDisk /\ [][NextInstance]_vars

\* The classifier: one tool call, every name and every arguments object,
\* in a process that has not touched the store.
InitClassify ==
  /\ db_file = FALSE
  /\ schema = {}
  /\ schema_version = {}
  /\ db = EmptyDb
  /\ legacy = <<>>
  /\ ProcessInit
NextClassify == Classify \/ MetricsName
SpecClassify == InitClassify /\ [][NextClassify]_vars

\* The capability table, asked by one process after the other.
NextCapabilities ==
  \/ StoreInit
  \/ Restart
  \/ GetModelCapabilities
SpecCapabilities == Init /\ [][NextCapabilities]_vars

\* Sessions: creation, deletion, renaming.
NextSessions ==
  \/ StoreInit
  \/ Tick
  \/ \E p \in Procs :
       \/ CreateSession(p)
       \/ DeleteSession(p)
       \/ RenameSession(p)
       \/ Environment(p)
SpecSessions == Init /\ [][NextSessions]_vars

\* Conversations: append, replace, read, and the deletion of their session.
NextMessages ==
  \/ StoreInit
  \/ \E p \in Procs :
       \/ AddMessage(p)
       \/ ReplaceConversation(p)
       \/ GetSession(p)
       \/ DeleteSession(p)
       \/ Environment(p)
SpecMessages == Init /\ [][NextMessages]_vars

\* The rows that reference a session: messages, tool events, and deletion.
NextRows ==
  \/ StoreInit
  \/ \E p \in Procs :
       \/ AddMessage(p)
       \/ ReplaceConversation(p)
       \/ RecordToolStart(p)
       \/ DeleteSession(p)
       \/ Environment(p)
SpecRows == Init /\ [][NextRows]_vars

\* The partial update of a session, every builder, by one caller (apply is a
\* single statement).
NextUpdate ==
  \/ StoreInit
  \/ Tick
  \/ UpdateSession(1)
SpecUpdate == Init /\ [][NextUpdate]_vars

\* The tool-event ledger.
NextLedger ==
  \/ StoreInit
  \/ Tick
  \/ \E p \in Procs :
       \/ RecordToolStart(p)
       \/ RecordToolComplete(p)
SpecLedger == Init /\ [][NextLedger]_vars

\* Conversations over time: append, replace, rename and read while the clock
\* moves.
NextTouch ==
  \/ StoreInit
  \/ Tick
  \/ \E p \in Procs :
       \/ AddMessage(p)
       \/ ReplaceConversation(p)
       \/ RenameSession(p)
       \/ GetSession(p)
SpecTouch == Init /\ [][NextTouch]_vars

\* The list of sessions while conversations are appended, replaced and
\* deleted and the clock moves.
NextList ==
  \/ StoreInit
  \/ Tick
  \/ \E p \in Procs :
       \/ AddMessage(p)
       \/ ReplaceConversation(p)
       \/ DeleteSession(p)
       \/ ListSessions(p)
SpecList == Init /\ [][NextList]_vars

\* Naming sessions while their conversations grow and are replaced.
NextDescribe ==
  \/ StoreInit
  \/ \E p \in Procs :
       \/ AddMessage(p)
       \/ ReplaceConversation(p)
       \/ MaybeUpdateDescription(p)
SpecDescribe == Init /\ [][NextDescribe]_vars

\* The ledger and its statistics.
NextStats ==
  \/ StoreInit
  \/ Tick
  \/ \E p \in Procs :
       \/ RecordToolStart(p)
       \/ RecordToolComplete(p)
       \/ GetToolStats(p)
SpecStats == Init /\ [][NextStats]_vars

TypeOK ==
  /\ storage \in {"uninit", "migrating", "recording", "importing",
                  "import_conversation", "ready", "failed"}
  /\ writer \in 0..NumProcs
  /\ now \in 0..MaxTime
  /\ nops \in 0..MaxOps
  /\ faults \in 0..MaxFaults

(* ================================ claims ================================= *)

\* The schema SessionStorage::create gives a brand-new database.
FreshSchema == RunDDL({}, create_ddl).schema

\* C8: the tables, columns and indexes that the migrations v1, v2, v3 leave
\* in a version-0 database are those of a database created fresh and stamped
\* at version 3.  Stated on the model: once run_migrations has run to the
\* target version, the schema equals the schema create() makes.
C8_SchemaEquivalence ==
  (storage = "ready" /\ mig = CURRENT_SCHEMA_VERSION) => schema = FreshSchema

\* C10: a legacy import that fails (at the sessions insert or at the
\* conversation replace) leaves no sessions row and no messages row of that
\* session, the bootstrap goes on with the next file, and initialization
\* does not fail.
C10_ImportAllOrNothing ==
  /\ [][(storage \in {"importing", "import_conversation"}
          /\ legacy[imp].load_ok
          /\ failed_count' = failed_count + 1)
         => /\ legacy[imp].session.id \notin SessionIds(db')
            /\ SessionMessages(db', legacy[imp].session.id) = {}
            /\ storage' = IF imp < Len(legacy) THEN "importing" ELSE "ready"]_vars
  /\ [](legacy /= <<>> => storage /= "failed")


\* The caller p returns from an operation of kind k in this step.
Returns(p, k) == result'[p].n /= result[p].n /\ result'[p].kind = k

NoDuplicateIds(rows) == \A r1, r2 \in rows : r1.id = r2.id => r1 = r2

\* C1: under any interleaving of concurrent create_session calls no two calls
\* return the same session id, and the sessions table (committed, or as seen
\* inside a transaction) never holds two rows with one id.  An id that a
\* delete_session freed is outside the claim.
C1_UniqueSessionIds ==
  /\ NoDuplicateIds(db.sessions)
  /\ \A p \in Procs : IsSome(tx[p]) => NoDuplicateIds(tx[p][1].cur.sessions)
  /\ \A id \in BagToSet(created) \ removed : CopiesIn(id, created) = 1

\* Two callers picked the same next id of a day from the same snapshot: one
\* was given it, the other was refused its write.
C1_Witness ==
  \E p, q \in Procs :
    /\ result[p].kind = "create_session" /\ result[p].ok
    /\ result[q].kind = "create_session" /\ result[q].err = "busy_snapshot"
    /\ result[q].arg.session_id = result[p].val.session.id

\* The largest numeric suffix among the ids of a day, 0 when it has none.
C2_MaxSuffix(d, today) ==
  LET sfx == {id[3] : id \in {i \in SessionIds(d) : i[1] = today}}
  IN  IF sfx = {} THEN 0 ELSE SetMax(sfx)

\* The INSERT of create_session by p in this step adds exactly one row, with
\* the id <day>_<max + 1>, the given description and the path as text.
C2_Insert(p, path_text) ==
  (pc[p] = "create_insert" /\ pc'[p] = "create_commit") =>
    /\ local[p].session_id =
         <<local[p].today, 0, C2_MaxSuffix(db, local[p].today) + 1>>
    /\ \E row \in tx'[p][1].cur.sessions :
         /\ tx'[p][1].cur.sessions = db.sessions \cup {row}
         /\ row \notin db.sessions
         /\ row.id = local[p].session_id
         /\ row.description = local[p].description
         /\ row.working_dir = path_text

\* The commit of create_session by p in this step publishes that row.
C2_Commit(p) ==
  (pc[p] = "create_commit" /\ pc'[p] = "create_get") =>
    db'.sessions = tx[p][1].cur.sessions

\* C2 (as claimed): a successful create_session returns the id <day>_<N> with
\* N one more than the largest suffix of that day's ids, and the returned
\* record is the row just inserted with the given working_dir and description.
C2_NextIdAndRecord ==
  [][\A p \in Procs :
       /\ C2_Insert(p, to_string_lossy(local[p].working_dir))
       /\ C2_Commit(p)
       /\ (Returns(p, "create_session") /\ result'[p].ok) =>
            /\ result'[p].val.session.id = local[p].session_id
            /\ result'[p].val.session.description = local[p].description
            /\ result'[p].val.session.working_dir = local[p].working_dir]_vars

\* C2 (amended): create_session inserts and commits a row with the id
\* <day>_<N>, N one more than the largest suffix of that day's ids, the given
\* description and the working_dir as to_string_lossy renders it; the record
\* returned is the row of that id as read back after the commit.
C2_NextIdAndReadBack ==
  [][\A p \in Procs :
       /\ C2_Insert(p, to_string_lossy(local[p].working_dir))
       /\ C2_Commit(p)
       /\ (Returns(p, "create_session") /\ result'[p].ok) =>
            \E row \in db.sessions :
              /\ row.id = local[p].session_id
              /\ result'[p].val.session = from_row(row)
              /\ result'[p].val.conversation = NULL]_vars

\* A caller was given the third id of a day that had two sessions, for a
\* working directory that is not UTF-8.
C2_Witness ==
  \E p \in Procs :
    /\ result[p].kind = "create_session" /\ result[p].ok
    /\ result[p].val.session.id = <<0, 0, 3>>
    /\ result[p].arg.working_dir = PathRaw
    /\ result[p].val.session.working_dir = to_string_lossy(PathRaw)

\* The message a messages row holds.
RowMessage(r) ==
  [role |-> IF r.role = "user" THEN "User" ELSE "Assistant",
   created |-> r.created_timestamp, content |-> from_json(r.content_json)[1]]

\* C3: replace_conversation is all-or-nothing.  While it runs, readers see
\* the session's original messages; when it fails at any step they are still
\* exactly the original ones; when it commits they are exactly the new
\* conversation.
C3_ReplaceAtomic ==
  /\ [](\A p \in Procs :
          pc[p] = "replace_insert" =>
            SessionMessages(db, local[p].session_id) = local[p].original)
  /\ [][\A p \in Procs :
          (pc[p] = "replace_insert" /\ Returns(p, "replace_conversation")) =>
            LET sid == local[p].session_id
                conv == local[p].conversation
                rows == SessionMessages(db', sid)
            IN  IF result'[p].ok
                  THEN /\ Cardinality(rows) = Len(conv)
                       /\ \A i \in 1..Len(conv) :
                            \E r \in rows : /\ r.id = db.seq_messages + i
                                            /\ RowMessage(r) = conv[i]
                  ELSE rows = local[p].original]_vars

\* A replace failed after its DELETE and one INSERT, and the session still
\* has the messages it had.
C3_Witness ==
  \E p \in Procs :
    /\ result[p].kind = "replace_conversation" /\ ~result[p].ok
    /\ result[p].arg.i = 2
    /\ result[p].arg.original /= {}
    /\ SessionMessages(db, result[p].arg.session_id) = result[p].arg.original

\* C4: when delete_session(id) succeeds no sessions, messages or tool_events
\* row of id remains and get_session(id) finds nothing; the statements of
\* delete_session leave the rows of every other session as they were.
C4_DeleteRemovesAll ==
  [][\A p \in Procs :
       LET sid == local[p].session_id
       IN  /\ (pc[p] = "delete_session" /\ Returns(p, "delete_session")
                 /\ result'[p].ok) =>
                /\ sid \notin SessionIds(db')
                /\ SessionMessages(db', sid) = {}
                /\ SessionEvents(db', sid) = {}
                /\ get_session(db', sid, TRUE) = {}
                /\ get_session(db', sid, FALSE) = {}
           /\ (pc[p] \in {"delete_messages", "delete_session"}
                 /\ pc'[p] /= pc[p]) =>
                /\ {r \in db'.sessions : r.id /= sid}
                     = {r \in db.sessions : r.id /= sid}
                /\ {m \in db'.messages : m.session_id /= sid}
                     = {m \in db.messages : m.session_id /= sid}
                /\ {e \in db'.tool_events : e.session_id /= sid}
                     = {e \in db.tool_events : e.session_id /= sid}]_vars

\* A session with a message and a tool event was deleted; the other
\* session's message and event are still there.
C4_Witness ==
  \E p \in Procs :
    /\ result[p].kind = "delete_session" /\ result[p].ok
    /\ result[p].arg = OldSessionId
    /\ OldSessionId \notin SessionIds(db)
    /\ db.seq_tool_events >= 2
    /\ OtherEventRow \in db.tool_events
    /\ OtherMessageRow \in db.messages

\* The fields of the Session record get_session returns.
SessionFields == DOMAIN from_row(OldSessionRow)

\* The builder b sets the field f.
IsSet(b, f) == f \in DOMAIN b /\ IsSome(b[f])

\* C5 (as claimed): after a successful apply() on an existing session,
\* get_session shows every set field equal to the value its setter was given
\* and every other field equal to its value before the update.
C5_SetFieldsOnly ==
  [][\A p \in Procs :
       (Returns(p, "apply_update") /\ result'[p].ok) =>
         LET b == result'[p].arg
         IN  \A before \in get_session(db, b.session_id, FALSE) :
               /\ get_session(db', b.session_id, FALSE) /= {}
               /\ \A after \in get_session(db', b.session_id, FALSE) :
                    /\ after.message_count = before.message_count
                    /\ \A f \in SessionFields :
                         after.session[f] = IF IsSet(b, f) THEN b[f][1]
                                            ELSE before.session[f]]_vars

\* C5 (amended): after a successful apply() on an existing session,
\* get_session shows every set field equal to the value its setter was given
\* (working_dir as to_string_lossy renders it), updated_at equal to the time
\* of the update when any field was set, and every other field equal to its
\* value before the update.
C5_SetFieldsAndUpdatedAt ==
  [][\A p \in Procs :
       (Returns(p, "apply_update") /\ result'[p].ok) =>
         LET b == result'[p].arg
             any == \E f \in SessionFields : IsSet(b, f)
         IN  \A before \in get_session(db, b.session_id, FALSE) :
               /\ get_session(db', b.session_id, FALSE) /= {}
               /\ \A after \in get_session(db', b.session_id, FALSE) :
                    /\ after.message_count = before.message_count
                    /\ \A f \in SessionFields :
                         after.session[f] =
                           CASE IsSet(b, f) /\ f = "working_dir" ->
                                  to_string_lossy(b[f][1])
                             [] IsSet(b, f) /\ f /= "working_dir" -> b[f][1]
                             [] ~IsSet(b, f) /\ f = "updated_at" /\ any -> now
                             [] OTHER -> before.session[f]]_vars

\* A description was set and total_tokens set to null in one apply(): the row
\* has both, and keeps the schedule_id it had.
C5_Witness ==
  \E p \in Procs :
    /\ result[p].kind = "apply_update" /\ result[p].ok
    /\ result[p].arg = Set(Set(NewBuilder(OldSessionId), "description", "d2"),
                           "total_tokens", NULL)
    /\ \E s \in get_session(db, OldSessionId, FALSE) :
         /\ s.session.description = "d2"
         /\ s.session.total_tokens = NULL
         /\ s.session.schedule_id = OldSessionRow.schedule_id

Terminal == {"success", "error", "cancelled"}

\* C6: a tool event is created running and changes status once, to success,
\* error or cancelled; a terminal event is never changed again (status,
\* error_message, completed_at, duration_ms) and no event goes back to
\* running.
C6_SingleTransition ==
  [][/\ \A e \in db'.tool_events :
          (\A o \in db.tool_events : o.id /= e.id) => e.status = "running"
     /\ \A e \in db.tool_events :
          e.status \in Terminal => e \in db'.tool_events
     /\ \A e \in db.tool_events, f \in db'.tool_events :
          (e.id = f.id /\ e.status /= f.status) =>
             e.status = "running" /\ f.status \in Terminal]_vars

\* Every messages row and every tool_events row is of an existing session.
ReferencesExist ==
  /\ \A m \in db.messages : m.session_id \in SessionIds(db)
  /\ \A e \in db.tool_events : e.session_id \in SessionIds(db)

\* The caller p returns in this step from an operation of kind k that named
\* a session that does not exist.
ReturnsForMissing(p, k) ==
  /\ Returns(p, k)
  /\ IF k = "replace_conversation"
       THEN pc[p] = "replace_insert" /\ local[p].session_id \notin SessionIds(db)
       ELSE pc[p] = "idle" /\ result'[p].arg[1] \notin SessionIds(db)

\* C7 (as claimed): every messages and tool_events row references an existing
\* session; add_message, replace_conversation and record_tool_start naming a
\* nonexistent session fail and insert nothing.
C7_ReferencesAndRejects ==
  /\ []ReferencesExist
  /\ [][\A p \in Procs :
          \A k \in {"add_message", "replace_conversation", "record_tool_start"} :
            ReturnsForMissing(p, k) =>
              /\ ~result'[p].ok
              /\ db'.messages = db.messages
              /\ db'.tool_events = db.tool_events]_vars

\* C7 (amended): every messages and tool_events row references an existing
\* session; add_message, record_tool_start and a replace_conversation with at
\* least one message fail when they name a nonexistent session, and none of
\* the three inserts anything (a replace_conversation with no message
\* succeeds and changes nothing).
C7_ReferencesAndRejectsInserts ==
  /\ []ReferencesExist
  /\ [][\A p \in Procs :
          \A k \in {"add_message", "replace_conversation", "record_tool_start"} :
            ReturnsForMissing(p, k) =>
              /\ (k = "replace_conversation" /\ local[p].conversation = <<>>)
                   \/ ~result'[p].ok
              /\ db'.messages = db.messages
              /\ db'.tool_events = db.tool_events]_vars

\* add_message named a session that does not exist and was refused by the
\* foreign key; no row references that session.
C7_Witness ==
  \E p \in Procs :
    /\ result[p].kind = "add_message"
    /\ result[p].err = "constraint"
    /\ result[p].arg[1] = GhostId
    /\ SessionMessages(db, GhostId) = {}

\* C9: on an initialized store, fresh or migrated, record_tool_start for an
\* existing session (the storage itself not failing) succeeds, inserts
\* exactly one tool_events row, running, with the given tool_name,
\* operation_type and file_path and null completed_at and duration_ms, and
\* returns the id of that row.
C9_StartSucceeds ==
  [][\A p \in Procs :
       (/\ Returns(p, "record_tool_start")
        /\ result'[p].arg[1] \in SessionIds(db)
        /\ result'[p].err \notin {"busy", "io"}) =>
          /\ result'[p].ok
          /\ \E e \in db'.tool_events :
               /\ e \notin db.tool_events
               /\ db'.tool_events = db.tool_events \cup {e}
               /\ e.id = result'[p].val
               /\ \A o \in db.tool_events : o.id /= e.id
               /\ e.session_id = result'[p].arg[1]
               /\ e.tool_name = result'[p].arg[2]
               /\ e.operation_type = result'[p].arg[3]
               /\ e.file_path = result'[p].arg[4]
               /\ e.status = "running"
               /\ e.completed_at = NULL
               /\ e.duration_ms = NULL]_vars

\* The session a returned mutation of kind k was called on.
MutatedSession(p, k) ==
  IF k = "apply_update" THEN result'[p].arg.session_id ELSE result'[p].arg[1]

\* C11: every successful mutation of a session (an apply() with a field set,
\* add_message, replace_conversation) leaves the session's updated_at at the
\* time of the mutation.
C11_MutationTouches ==
  [][\A p \in Procs :
       \A k \in {"apply_update", "add_message", "replace_conversation"} :
         (/\ Returns(p, k)
          /\ result'[p].ok
          /\ k = "apply_update" => UpdateColumns(result'[p].arg) /= <<>>) =>
            \A r \in db'.sessions :
              r.id = MutatedSession(p, k) => r.updated_at = now]_vars

\* C12: within one day the suffix of each newly assigned id is greater than
\* the suffix of every id assigned before it that day, whether the session
\* that holds the earlier id still exists or was deleted; so no id is
\* assigned twice.  An id is assigned by the INSERT of create_session.
C12_SuffixesIncrease ==
  [][\A p \in Procs :
       (pc[p] = "create_insert" /\ pc'[p] = "create_commit") =>
         LET new == local[p].session_id
         IN  \A old \in SessionIds(db) \cup removed :
               old[1] = new[1] => old[3] < new[3]]_vars

\* C13: apply() on a builder with no field set returns Ok and changes
\* nothing in the store: no row, updated_at included, and no part of the
\* schema.
C13_EmptyApplyIsNoOp ==
  [][\A p \in Procs :
       (Returns(p, "apply_update") /\ UpdateColumns(result'[p].arg) = <<>>) =>
         /\ result'[p].ok
         /\ db' = db
         /\ schema' = schema
         /\ schema_version' = schema_version]_vars

\* An empty apply() on an existing session returned Ok at a later time than
\* the session's updated_at, and the row is as it was.
C13_Witness ==
  \E p \in Procs :
    /\ result[p].kind = "apply_update" /\ result[p].ok
    /\ result[p].arg = NewBuilder(OldSessionId)
    /\ now > OldSessionRow.updated_at
    /\ OldSessionRow \in db.sessions

\* C14: in every state an event has a duration_ms only if its status is
\* success, error or cancelled, and every duration_ms is non-negative and is
\* the completion time minus the start time in milliseconds.
C14_DurationOfTerminal ==
  \A e \in db.tool_events :
    IsSome(e.duration_ms) =>
      /\ e.status \in Terminal
      /\ IsSome(e.completed_at)
      /\ e.duration_ms[1] >= 0
      /\ e.duration_ms[1] = (e.completed_at[1] - e.started_at) * 1000

\* The events of a session whose status is terminal.
TerminalEvents(d, sid) == {e \in SessionEvents(d, sid) : e.status \in Terminal}

RECURSIVE C15_Sum(_)
C15_Sum(rows) ==
  IF rows = {} THEN 0
  ELSE LET e == CHOOSE x \in rows : TRUE
       IN  (IF IsSome(e.duration_ms) THEN e.duration_ms[1] ELSE 0)
             + C15_Sum(rows \ {e})

\* The fraction avg is the mean of duration_ms over the events rows, 0 when
\* there are none.
C15_IsMean(avg, rows) ==
  IF rows = {} THEN avg[1] = 0
  ELSE avg[1] * Cardinality(rows) = C15_Sum(rows) * avg[2]

\* C15: get_tool_stats(session) gives as avg_duration_ms the arithmetic mean
\* of duration_ms over exactly the terminal events of the session, and 0
\* when the session has no terminal event.
C15_AvgOverTerminal ==
  [][\A p \in Procs :
       Returns(p, "get_tool_stats") =>
         /\ result'[p].ok
         /\ C15_IsMean(result'[p].val.avg_duration_ms,
                       TerminalEvents(db, result'[p].arg))]_vars

\* What a file operation of ToolStats shows of an event.
C16_FileOperation(e) ==
  [file_path |-> e.file_path[1], operation_type |-> e.operation_type[1],
   timestamp |-> e.started_at]

\* The ToolStats st is the aggregation of the events rows.
C16_Aggregates(st, rows) ==
  LET byop == {e \in rows : e.operation_type /= NULL}
      files == {e \in rows : e.file_path /= NULL /\ e.operation_type /= NULL}
      fo == st.file_operations
  IN  /\ st.total_calls = Cardinality(rows)
      /\ st.successful_calls = Cardinality({e \in rows : e.status = "success"})
      /\ st.failed_calls = Cardinality({e \in rows : e.status = "error"})
      /\ st.cancelled_calls =
           Cardinality({e \in rows : e.status = "cancelled"})
      /\ DOMAIN st.calls_by_tool = {e.tool_name : e \in rows}
      /\ \A t \in DOMAIN st.calls_by_tool :
           st.calls_by_tool[t] = Cardinality({e \in rows : e.tool_name = t})
      /\ DOMAIN st.calls_by_operation = {e.operation_type[1] : e \in byop}
      /\ \A o \in DOMAIN st.calls_by_operation :
           st.calls_by_operation[o] =
             Cardinality({e \in byop : e.operation_type[1] = o})
      /\ Len(fo) = Cardinality(files)
      /\ \A i, j \in 1..Len(fo) : i < j => fo[i].timestamp <= fo[j].timestamp
      /\ \A e \in files :
           Cardinality({i \in 1..Len(fo) : fo[i] = C16_FileOperation(e)})
             = Cardinality({x \in files :
                              C16_FileOperation(x) = C16_FileOperation(e)})

\* C16: get_tool_stats(session) is the aggregation of the session's own
\* events: the counts in total and by status, by tool name and by non-null
\* operation_type, and the file operations (events with a file_path and an
\* operation_type) in non-decreasing started_at order.
C16_StatsAreAggregation ==
  [][\A p \in Procs :
       Returns(p, "get_tool_stats") =>
         /\ result'[p].ok
         /\ C16_Aggregates(result'[p].val,
              {e \in db.tool_events : e.session_id = result'[p].arg})]_vars

\* The orders of message rows that are non-decreasing in storage timestamp.
C17_Orders(rows) ==
  {o \in [1..Cardinality(rows) -> rows] :
     /\ \A r \in rows : \E i \in DOMAIN o : o[i] = r
     /\ \A i, j \in DOMAIN o : i < j => o[i].timestamp <= o[j].timestamp}

\* Every conversation get_session returns lists all the stored messages of
\* the session in storage-timestamp order.
C17_ReadsInOrder ==
  [][\A p \in Procs :
       (Returns(p, "get_session") /\ result'[p].ok /\ result'[p].arg[2]) =>
         LET conv == result'[p].val.conversation[1]
         IN  \E o \in C17_Orders(SessionMessages(db, result'[p].arg[1])) :
               conv = [i \in DOMAIN o |-> RowMessage(o[i])]]_vars

\* The message m is in every conversation read for the session from d.
C17_Readable(d, sid, m) ==
  /\ get_session(d, sid, TRUE) /= {}
  /\ \A s \in get_session(d, sid, TRUE) :
       \E i \in 1..Len(s.conversation[1]) : s.conversation[1][i] = m

\* C17 (as claimed): when add_message(session, m) succeeds,
\* get_session(session, true) gives a conversation that contains m with its
\* role, content and created timestamp; and every conversation lists all
\* the stored messages of the session in storage-timestamp order.
C17_AppendRoundTrip ==
  /\ [][\A p \in Procs :
          (Returns(p, "add_message") /\ result'[p].ok) =>
            C17_Readable(db', result'[p].arg[1], result'[p].arg[2])]_vars
  /\ C17_ReadsInOrder

\* C17 (amended): from the INSERT of add_message(session, m) on,
\* get_session(session, true) gives a conversation that contains m with its
\* role, content and created timestamp, until a replace_conversation or a
\* delete_session of that session removes it (no other step removes a
\* message); and every conversation lists all the stored messages of the
\* session in storage-timestamp order.
C17_AppendRoundTripUntilReplaced ==
  /\ [][\A p \in Procs :
          (pc[p] = "idle" /\ pc'[p] = "add_touch") =>
            C17_Readable(db', local'[p].session_id, local'[p].message)]_vars
  /\ [][\A r \in db.messages \ db'.messages :
          \E p \in Procs :
            /\ \/ pc[p] = "replace_insert"
                    /\ Returns(p, "replace_conversation") /\ result'[p].ok
               \/ pc[p] = "delete_messages"
            /\ local[p].session_id = r.session_id]_vars
  /\ C17_ReadsInOrder

\* A message appended at a later time than the session's first one was read
\* back after it.
C17_Witness ==
  \E p \in Procs :
    /\ result[p].kind = "get_session" /\ result[p].ok /\ result[p].arg[2]
    /\ Len(result[p].val.conversation[1]) = 2
    /\ result[p].val.conversation[1][2] \in MessageInputs
    /\ \E r \in SessionMessages(db, result[p].arg[1]) :
         /\ r.timestamp > 0
         /\ RowMessage(r) = result[p].val.conversation[1][2]

\* What get_session gives for the session id in both modes on the rows d:
\* with messages, message_count is the length of the conversation; without,
\* the conversation is unset and message_count is the number of stored
\* message rows; and the two counts are equal.
C18_BothModes(d, id) ==
  /\ \A s \in get_session(d, id, TRUE) :
       /\ s.conversation /= NULL
       /\ s.message_count = Len(s.conversation[1])
  /\ \A s \in get_session(d, id, FALSE) :
       /\ s.conversation = NULL
       /\ s.message_count = Cardinality(SessionMessages(d, id))
  /\ \A s \in get_session(d, id, TRUE), u \in get_session(d, id, FALSE) :
       s.message_count = u.message_count

\* C18: get_session(id, true) returns message_count equal to the length of
\* the conversation it returns; get_session(id, false) returns no
\* conversation and message_count equal to the number of stored message rows
\* of the session; in every reachable state the two modes report the same
\* message_count.
C18_CountsAgree ==
  /\ [](\A id \in SessionIds(db) : C18_BothModes(db, id))
  /\ [][\A p \in Procs :
          (Returns(p, "get_session") /\ result'[p].ok) =>
            LET s == result'[p].val
                n == Cardinality(SessionMessages(db, result'[p].arg[1]))
            IN  /\ s.message_count = n
                /\ IF result'[p].arg[2]
                     THEN s.conversation /= NULL /\ Len(s.conversation[1]) = n
                     ELSE s.conversation = NULL]_vars

\* get_session without messages has counted two rows of a session, one of
\* them appended by add_message or replace_conversation of this run.
C18_Witness ==
  \E p \in Procs :
    /\ result[p].kind = "get_session" /\ result[p].ok /\ ~result[p].arg[2]
    /\ result[p].val.message_count = 2
    /\ \E r \in SessionMessages(db, result[p].arg[1]) :
         r.role = "assistant" /\ r.id > 2

\* C19: list_sessions returns exactly the sessions that have at least one
\* message, each once, as its sessions row decodes, with message_count equal
\* to the number of message rows of that session, in descending order of
\* updated_at.
C19_ListIsJoin ==
  [][\A p \in Procs :
       (Returns(p, "list_sessions") /\ result'[p].ok) =>
         LET l == result'[p].val
             withMessages == {r \in db.sessions :
                                \E m \in db.messages : m.session_id = r.id}
         IN  /\ {l[i].session.id : i \in DOMAIN l} =
                  {r.id : r \in withMessages}
             /\ Len(l) = Cardinality(withMessages)
             /\ \A i \in DOMAIN l :
                  /\ \E r \in withMessages : l[i].session = from_row(r)
                  /\ l[i].message_count =
                       Cardinality({m \in db.messages :
                                      m.session_id = l[i].session.id})
             /\ \A i, j \in DOMAIN l :
                  i < j => l[i].session.updated_at >= l[j].session.updated_at]_vars

\* list_sessions has returned two sessions, first the one a message was
\* appended to later, with its two messages counted.
C19_Witness ==
  \E p \in Procs :
    /\ result[p].kind = "list_sessions" /\ result[p].ok
    /\ Len(result[p].val) = 2
    /\ result[p].val[1].session.updated_at > result[p].val[2].session.updated_at
    /\ result[p].val[1].message_count = 2
    /\ result[p].val[2].message_count = 1

\* C20: get_session and delete_session called with an id that has no
\* sessions row fail with the not-found error and leave every sessions,
\* messages and tool_events row unchanged: both return at their first
\* SELECT, and delete_session goes on to its DELETEs only for an id that has
\* a row.
C20_MissingIsNotFound ==
  [][\A p \in Procs :
       /\ (Returns(p, "get_session")
             /\ result'[p].arg[1] \notin SessionIds(db)) =>
            /\ ~result'[p].ok
            /\ result'[p].err = "not_found"
            /\ db' = db
       /\ (Returns(p, "delete_session") /\ pc[p] = "idle"
             /\ result'[p].arg \notin SessionIds(db)) =>
            /\ ~result'[p].ok
            /\ result'[p].err = "not_found"
            /\ db' = db
       /\ (pc[p] = "idle" /\ pc'[p] = "delete_messages") =>
            local'[p].session_id \in SessionIds(db)]_vars

\* Both calls have failed for an id without a row while sessions with
\* messages are stored.
C20_Witness ==
  \E p, q \in Procs :
    /\ result[p].kind = "get_session" /\ result[p].err = "not_found"
    /\ result[p].arg[1] \notin SessionIds(db)
    /\ result[q].kind = "delete_session" /\ result[q].err = "not_found"
    /\ result[q].arg \notin SessionIds(db)
    /\ db.sessions /= {} /\ db.messages /= {}

\* The caller p holds a handle that a successful instance() call returned.
HoldsHandle(p) == result[p].kind = "instance" /\ result[p].ok

\* C21: under any interleaving of concurrent instance() calls in one
\* process, initialization completes successfully at most once (a new()
\* completes only while the cell is empty, and a cell once set keeps its
\* handle while the process lives), and every call that returns
\* successfully returns the same handle, the one in the cell.
C21_OneHandle ==
  /\ [](\A p, q \in Procs :
          (HoldsHandle(p) /\ HoldsHandle(q)) =>
            /\ result[p].val = result[q].val
            /\ cell = Some(result[p].val))
  /\ [][\A p \in Procs :
          (pc[p] = "instance_init" /\ Returns(p, "instance") /\ result'[p].ok)
            => /\ cell = NULL
               /\ \A q \in Procs : ~HoldsHandle(q)]_vars
  /\ [][cell /= NULL => cell' \in {cell, NULL}]_vars

\* Two callers hold the handle: one ran the initialization, the other called
\* while it ran and got the handle from the cell.
C21_Witness ==
  \E p, q \in Procs :
    /\ p /= q
    /\ HoldsHandle(p) /\ result[p].val = p
    /\ HoldsHandle(q) /\ result[q].val = p
    /\ cell = Some(p)

\* import_legacy is running or has run in this initialization.
Bootstrapping == {"importing", "import_conversation"}

\* C22: over the lifetime of a database file the legacy bootstrap is
\* executed exactly once: the initialization that makes the file goes on to
\* the bootstrap (which ends at once when there are no legacy files), the
\* file once made stays, and no initialization that finds the file present
\* enters the bootstrap.
C22_BootstrapOnce ==
  /\ [][(~db_file /\ db_file') =>
          storage' \in Bootstrapping \cup {"ready"}]_vars
  /\ [][db_file => db_file']_vars
  /\ [][(db_file /\ storage' \in Bootstrapping) =>
          storage \in Bootstrapping]_vars

\* C23: when run_migrations requests a migration whose version has no arm in
\* apply_migration, initialization aborts with an error: the step ends in
\* failure with the schema and the version log as they were, the caller's
\* instance() returns the error and the cell stays empty; and no version
\* without a migration is ever recorded.
C23_UnknownMigrationAborts ==
  /\ [][(storage = "migrating" /\ ~KnownMigration(mig)) =>
          /\ storage' \in {"migrating", "failed"}
          /\ schema' = schema
          /\ schema_version' = schema_version
          /\ cell' = NULL]_vars
  /\ [][\A p \in Procs :
          (pc[p] = "instance_init" /\ storage = "failed"
             /\ Returns(p, "instance")) =>
            ~result'[p].ok /\ cell' = NULL]_vars
  /\ [][\A v \in schema_version' \ schema_version : KnownMigration(v)]_vars

\* instance() has returned an error after run_migrations asked for a
\* migration that does not exist, with no storage fault involved.
C23_Witness ==
  \E p \in Procs :
    /\ result[p].kind = "instance" /\ ~result[p].ok
    /\ storage = "failed" /\ ~KnownMigration(mig)
    /\ mig \notin schema_version
    /\ faults = 0
    /\ cell = NULL

\* C24: opening a database whose recorded schema version is greater than
\* CURRENT_SCHEMA_VERSION aborts initialization: no instance() call that ran
\* the initialization on such a database returns a handle, and the cell is
\* never set over one.
C24_NewerDiskAborts ==
  /\ [][\A p \in Procs :
          (pc[p] = "instance_init" /\ Returns(p, "instance")
             /\ \E v \in schema_version : v > CURRENT_SCHEMA_VERSION) =>
            ~result'[p].ok]_vars
  /\ [](cell /= NULL =>
          \A v \in schema_version : v <= CURRENT_SCHEMA_VERSION)

\* C25: record_tool_complete called with an event id that no row has, or
\* with the id of an event that is already terminal, returns success (the
\* call is not rejected; a busy or failing storage aside), and for an id
\* that no row has the ledger is unchanged.
C25_CompleteNotValidated ==
  [][\A p \in Procs :
       Returns(p, "record_tool_complete") =>
         LET event_id == result'[p].arg[1]
             rows == {e \in db.tool_events : e.id = event_id}
         IN  /\ (rows = {} \/ \E e \in rows : e.status \in Terminal) =>
                  (result'[p].ok \/ result'[p].err \in {"busy", "io"})
             /\ rows = {} => db'.tool_events = db.tool_events]_vars

\* The base name and the arguments object of the call that was classified.
CalledBase == extract_extension_and_name(tool_call[1].tool_name).base_name
CalledArgs == tool_call[1].arguments

\* The string value of the key in the arguments of the call, if it has one.
StringArg(key) ==
  IF CalledArgs /= NULL /\ key \in DOMAIN CalledArgs[1]
       /\ CalledArgs[1][key][1] = "String"
    THEN Some(CalledArgs[1][key][2]) ELSE NULL

\* The argument is among the arguments of the call, whatever its type.
HasArg(key) == CalledArgs /= NULL /\ key \in DOMAIN CalledArgs[1]

\* C26: for a tool whose base name is text_editor or contains editor, and a
\* string command argument, the operation is selected by the command (write,
\* create: FileCreate; edit, replace, str_replace: FileEdit; view, read:
\* FileRead; any other: Other(text_editor_<command>)) and metadata.file_path
\* is the path argument.
C26_EditorByCommand ==
  (classified /= NULL
     /\ (CalledBase = Lit.text_editor \/ contains(CalledBase, Lit.editor))
     /\ StringArg("command") /= NULL) =>
    LET command == StringArg("command")[1]
    IN  /\ classified[1].operation =
             CASE command \in {Lit.write, Lit.create} -> FileCreate
               [] command \in {Lit.edit, Lit.replace, Lit.str_replace} ->
                    FileEdit
               [] command \in {Lit.view, Lit.read} -> FileRead
               [] OTHER -> Other(Lit.text_editor_prefix \o command)
        /\ classified[1].metadata.file_path = StringArg("path")

\* The pat occurs in the text s.
Occurs(pat, s) ==
  \E i \in 1..(Len(s) - Len(pat) + 1) : SubSeq(s, i, i + Len(pat) - 1) = pat

\* The name rules in their fixed order: the operation, and the substrings
\* of which one must occur (FileCreate also needs create to occur).
C27_Rules ==
  << <<FileCreate, {Lit.file, Lit.write}>>,
     <<FileEdit, {Lit.edit, Lit.modify, Lit.update, Lit.replace, Lit.patch}>>,
     <<FileRead, {Lit.read, Lit.view, Lit.cat, Lit.show}>>,
     <<FileDelete, {Lit.delete, Lit.remove, Lit.rm}>>,
     <<CommandExecute,
       {Lit.execute, Lit.run, Lit.command, Lit.shell, Lit.bash}>>,
     <<Search, {Lit.search, Lit.find, Lit.query}>>,
     <<Navigate, {Lit.navigate, Lit.goto, Lit.open}>> >>

\* The rule i matches the lower-cased name.
C27_Matches(i, lower) ==
  /\ \E pat \in C27_Rules[i][2] : Occurs(pat, lower)
  /\ i = 1 => Occurs(Lit.create, lower)

\* The operation of the first rule that matches the name, Other(name) when
\* none does.
C27_FirstRule(name) ==
  LET lower == to_lowercase(name)
      matching == {i \in DOMAIN C27_Rules : C27_Matches(i, lower)}
  IN  IF matching = {} THEN Other(name)
      ELSE C27_Rules[CHOOSE i \in matching : \A j \in matching : i <= j][1]

\* Name-based classification gives the operation of the first matching rule,
\* which is the final operation unless it is Other.
C27_FirstMatchWins ==
  classified /= NULL =>
    /\ classify_by_name(CalledBase) = C27_FirstRule(CalledBase)
    /\ ~IsOther(C27_FirstRule(CalledBase)) =>
         classified[1].operation = C27_FirstRule(CalledBase)

\* C27 (as claimed): name-based classification returns the result of the
\* first rule, in the fixed order, that matches the lower-cased base name,
\* and Other(base name) when none matches; a name matching the FileCreate
\* rule and a later rule is FileCreate, and a name containing search is
\* Search.
C27_FirstMatchAndSearch ==
  /\ C27_FirstMatchWins
  /\ (classified /= NULL /\ Occurs(Lit.search, to_lowercase(CalledBase))) =>
       classify_by_name(CalledBase) = Search

\* C27 (amended): the same, but a name containing search is Search only
\* when none of the rules before the Search rule matches it.
C27_FirstMatchAndSearchLast ==
  /\ C27_FirstMatchWins
  /\ (classified /= NULL /\ Occurs(Lit.search, to_lowercase(CalledBase))
        /\ \A i \in 1..5 : ~C27_Matches(i, to_lowercase(CalledBase))) =>
       classify_by_name(CalledBase) = Search

\* A name that matches the FileCreate rule and the FileEdit rule has been
\* classified FileCreate.
C27_Witness ==
  /\ classified /= NULL
  /\ C27_Matches(1, to_lowercase(CalledBase))
  /\ C27_Matches(2, to_lowercase(CalledBase))
  /\ classified[1].operation = FileCreate

\* The text is split at the first occurrence of sep into ext and base.
SplitsAtFirst(text, sep, ext, base) ==
  /\ text = ext \o sep \o base
  /\ ~Occurs(sep, ext \o SubSeq(sep, 1, Len(sep) - 1))

\* C28: classify_tool splits tool_name at the first __ when one occurs,
\* otherwise at the first ::, into extension and base name; with neither the
\* extension is unset and the base name is the whole name; original_name is
\* the input; and the operation and the metadata are those of every other
\* tool name with the same base name and the same arguments.
C28_SplitAndIgnoreExtension ==
  classified /= NULL =>
    LET tool_name == tool_call[1].tool_name
        split == extract_extension_and_name(tool_name)
        sep == IF Occurs(DoubleUnderscore, tool_name) THEN DoubleUnderscore
               ELSE DoubleColon
    IN  /\ classified[1].original_name = tool_name
        /\ classified[1].extension = split.extension
        /\ IF Occurs(DoubleUnderscore, tool_name)
                \/ Occurs(DoubleColon, tool_name)
             THEN /\ split.extension /= NULL
                  /\ SplitsAtFirst(tool_name, sep, split.extension[1],
                                   split.base_name)
             ELSE split.extension = NULL /\ split.base_name = tool_name
        /\ \A other \in ToolNames :
             extract_extension_and_name(other).base_name = split.base_name =>
               LET c == classify_tool(other, CalledArgs)
               IN  /\ c.operation = classified[1].operation
                   /\ c.metadata = classified[1].metadata

\* A name that holds :: before __ has been split at the __, and classified
\* by what follows it.
C28_Witness ==
  /\ classified /= NULL
  /\ classified[1].extension /= NULL
  /\ Occurs(DoubleColon, classified[1].extension[1])
  /\ classified[1].operation = Other(CalledBase)
  /\ CalledBase /= tool_call[1].tool_name

\* The string value of the first of the keys that is among the arguments,
\* unset when that one is not a string or none is present.
FirstPresent(keys) ==
  LET present == {i \in DOMAIN keys : HasArg(keys[i])}
  IN  IF present = {} THEN NULL
      ELSE StringArg(keys[CHOOSE i \in present : \A j \in present : i <= j])

FirstString(k1, k2) ==
  IF StringArg(k1) /= NULL THEN StringArg(k1) ELSE StringArg(k2)

\* The file operation an operation or action argument selects.
C30_ByOperation(op) ==
  CASE op \in {Lit.create, Lit.write} -> FileCreate
    [] op \in {Lit.edit, Lit.modify, Lit.update} -> FileEdit
    [] op \in {Lit.read, Lit.view} -> FileRead
    [] op \in {Lit.delete, Lit.remove} -> FileDelete
    [] OTHER -> Other(Lit.file_prefix \o op)

\* The operation of a call whose name rules give Other, from the operation
\* argument op and the search argument query found in its arguments.
C30_Expected(op, query) ==
  IF (HasArg("path") \/ HasArg("file") \/ HasArg("filename")) /\ op /= NULL
    THEN C30_ByOperation(op[1])
  ELSE IF (HasArg("path") \/ HasArg("file") \/ HasArg("filename"))
            /\ (HasArg("content") \/ HasArg("text"))
    THEN FileCreate
  ELSE IF query /= NULL THEN Search
  ELSE Other(CalledBase)

\* C30 (as claimed): when the name rules give Other, and one of path, file,
\* filename is present, a string operation or action argument selects the
\* file operation; absent that, a content or text argument gives
\* FileCreate; failing those, a string query or search argument gives
\* Search; otherwise, and without arguments, the result is Other(base name).
C30_ByArguments ==
  (classified /= NULL /\ IsOther(classify_by_name(CalledBase))) =>
    classified[1].operation =
      C30_Expected(FirstString("operation", "action"),
                   FirstString("query", "search"))

\* C30 (amended): the same, where the operation argument is the first
\* present of operation and action, and counts only when that one is a
\* string, and likewise the search argument is the first present of query
\* and search.
C30_ByFirstPresentArguments ==
  (classified /= NULL /\ IsOther(classify_by_name(CalledBase))) =>
    classified[1].operation =
      C30_Expected(FirstPresent(<<"operation", "action">>),
                   FirstPresent(<<"query", "search">>))

\* A call with a path, the operation delete and a content has been
\* classified FileDelete.
C30_Witness ==
  /\ classified /= NULL
  /\ IsOther(classify_by_name(CalledBase))
  /\ HasArg("path") /\ HasArg("content")
  /\ StringArg("operation") = Some(Lit.delete)
  /\ classified[1].operation = FileDelete

\* The token of each operation that carries no name.
C31_Tokens ==
  [FileCreate |-> <<"f", "i", "l", "e", "_", "c", "r", "e", "a", "t", "e">>,
   FileEdit |-> <<"f", "i", "l", "e", "_", "e", "d", "i", "t">>,
   FileRead |-> <<"f", "i", "l", "e", "_", "r", "e", "a", "d">>,
   FileDelete |-> <<"f", "i", "l", "e", "_", "d", "e", "l", "e", "t", "e">>,
   CommandExecute |-> <<"c", "o", "m", "m", "a", "n", "d", "_", "e", "x", "e", "c", "u", "t", "e">>,
   Search |-> <<"s", "e", "a", "r", "c", "h">>,
   Navigate |-> <<"n", "a", "v", "i", "g", "a", "t", "e">>]

\* C31: metrics_name() is file_create, file_edit, file_read, file_delete,
\* command_execute, search or navigate for the operation of that name and
\* the carried string for Other; detailed_name() is the extension, ::, and
\* metrics_name() when an extension is set, and metrics_name() otherwise.
C31_MetricsAndDetailedName ==
  names /= NULL =>
    LET op == classified[1].operation
        ext == classified[1].extension
        token == IF op[1] = "Other" THEN op[2] ELSE C31_Tokens[op[1]]
    IN  /\ names[1].metrics_name = token
        /\ names[1].detailed_name =
             (IF ext /= NULL THEN ext[1] \o <<":", ":">> \o token ELSE token)

\* developer__create_file has been classified and named: file_create, and
\* developer::file_create in detail.
C31_Witness ==
  /\ names /= NULL
  /\ classified[1].extension = Some(<<"d", "e", "v", "e", "l", "o", "p", "e", "r">>)
  /\ classified[1].operation = FileCreate
  /\ names[1].metrics_name = <<"f", "i", "l", "e", "_", "c", "r", "e", "a", "t", "e">>
  /\ names[1].detailed_name = <<"d", "e", "v", "e", "l", "o", "p", "e", "r", ":", ":", "f", "i", "l", "e", "_", "c", "r", "e", "a", "t", "e">>

\* The user messages stored for the session.
StoredUserMessages(id) ==
  Cardinality({m \in db.messages : m.session_id = id /\ m.role = "user"})

\* C32: maybe_update_description calls the name generator, and overwrites
\* the description, only for a session that holds more than
\* MSG_COUNT_FOR_SESSION_NAME_GENERATION user messages; for a session at or
\* below that number it leaves the description as it is.
C32_NameOnlyAboveCount ==
  [][\A p \in Procs :
       /\ (pc[p] = "idle" /\ pc'[p] = "generate_session_name") =>
            StoredUserMessages(local'[p].session_id)
              > MSG_COUNT_FOR_SESSION_NAME_GENERATION
       /\ (pc[p] = "apply_description" /\ db' /= db) =>
            local[p].user_message_count
              > MSG_COUNT_FOR_SESSION_NAME_GENERATION]_vars

\* Every caller has so far called nothing but create_session.
OnlyCreators ==
  \A q \in Procs :
    /\ local[q].kind \in {"none", "create_session"}
    /\ result[q].kind \in {"none", "create_session"}

\* C33: when create_session calls run concurrently on one day, none of them
\* fails because of another creator (no write conflict, no stale snapshot,
\* no duplicate id): a create_session that returns, returns successfully,
\* a failure of the storage itself aside, and the ids returned are distinct.
C33_CreatorsAllSucceed ==
  /\ [][\A p \in Procs :
          (OnlyCreators /\ Returns(p, "create_session")) =>
            (result'[p].ok \/ result'[p].err = "io")]_vars
  /\ [](OnlyCreators =>
          \A id \in BagToSet(created) : CopiesIn(id, created) = 1)

\* The recorded version of the database: the highest version in its log, 0
\* without a schema_version table.
RecordedVersion ==
  IF Tbl("schema_version") \notin schema \/ schema_version = {} THEN 0
  ELSE SetMax(schema_version)

\* What the statement st makes is in the schema.
Made(st) ==
  CASE st.op = "create_table" -> st.objs \subseteq schema
    [] st.op = "create_index" -> Idx(st.name, st.table, st.column) \in schema
    [] st.op = "add_column" -> Col(st.table, st.column) \in schema

\* Every statement of migration v has been run.
MigrationApplied(v) ==
  \A i \in DOMAIN migration_ddl(v) : Made(migration_ddl(v)[i])

\* C34: opening a database at recorded version c below the target t applies
\* the migrations c+1, ..., t in ascending order, none skipped: the first is
\* c+1 (1 for a database without schema_version table), migration v is
\* started only with v-1 the recorded version, v is recorded only after
\* migration v has been applied and with v-1 recorded, and the opening
\* completes only with t recorded.
C34_MigrationsInOrder ==
  /\ [][(storage = "uninit" /\ storage' = "migrating") =>
          /\ RecordedVersion < CURRENT_SCHEMA_VERSION
          /\ mig' = RecordedVersion + 1]_vars
  /\ [](storage = "migrating" => mig = RecordedVersion + 1)
  /\ [][schema_version' /= schema_version =>
          \/ ~db_file
          \/ /\ schema_version' = schema_version \cup {RecordedVersion + 1}
             /\ mig = RecordedVersion + 1
             /\ MigrationApplied(mig)]_vars
  /\ [][(storage \in {"migrating", "recording"} /\ storage' = "ready") =>
          /\ storage = "recording"
          /\ RecordedVersion' = CURRENT_SCHEMA_VERSION]_vars

\* A database without schema_version table has been opened: the migrations
\* 1, 2 and 3 have been applied and recorded.
C34_Witness ==
  /\ storage = "ready"
  /\ schema_version = 1..CURRENT_SCHEMA_VERSION
  /\ \A v \in 1..CURRENT_SCHEMA_VERSION : MigrationApplied(v)

\* C35: the schema_version log is append-only and the running schema version
\* (its maximum) never decreases, over any sequence of initializations, the
\* ones that fail part-way included: every step keeps the recorded versions
\* and the highest of them does not go down.
C35_LogAppendOnly ==
  [][/\ schema_version \subseteq schema_version'
     /\ schema_version /= {} => RecordedVersion' >= RecordedVersion]_vars

\* An initialization failed part-way under a storage fault, a later one of
\* the same database went through, and a caller holds its handle: the log
\* holds every version up to the target.
C35_Witness ==
  \E p, q \in Procs :
    /\ result[p].kind = "instance" /\ ~result[p].ok
    /\ HoldsHandle(q)
    /\ faults > 0
    /\ schema_version = 1..CURRENT_SCHEMA_VERSION

\* C36: migration is restartable: when an initialization was interrupted
\* after the changes of migration v were applied and before v was recorded,
\* a later initialization of the database does not fail on migration v (a
\* further storage fault aside), and goes on to the target version.
C36_MigrationRestartable ==
  [][(storage = "migrating" /\ KnownMigration(mig)
        /\ MigrationApplied(mig) /\ mig \notin schema_version) =>
       (storage' /= "failed" \/ faults' /= faults)]_vars

\* C37: delete_session is all-or-nothing, also while add_message runs on
\* the same session: when it returns Ok no row of the session remains, and
\* when it returns an error after its check the session still has every
\* message it had when delete_session was called.
C37_DeleteAllOrNothing ==
  [][\A p \in Procs :
       (Returns(p, "delete_session")
          /\ pc[p] \in {"delete_messages", "delete_session"}) =>
         LET id == local[p].session_id
         IN  IF result'[p].ok
               THEN /\ id \notin SessionIds(db')
                    /\ SessionMessages(db', id) = {}
                    /\ SessionEvents(db', id) = {}
               ELSE local[p].before \subseteq db'.messages]_vars

(* C38 *)

\* The sum of the counts of calls_by_tool.
RECURSIVE C38_SumByTool(_)
C38_SumByTool(by) ==
  IF DOMAIN by = {} THEN 0
  ELSE LET t == CHOOSE x \in DOMAIN by : TRUE
       IN  by[t] + C38_SumByTool([u \in DOMAIN by \ {t} |-> by[u]])

\* C38: every ToolStats get_tool_stats returns is a consistent snapshot of the
\* ledger, also when record_tool_start and record_tool_complete run
\* concurrently with it: the counts of calls_by_tool add up to total_calls,
\* and successful_calls + failed_calls + cancelled_calls is at most
\* total_calls.
C38_ConsistentSnapshot ==
  [][\A p \in Procs :
       (Returns(p, "get_tool_stats") /\ result'[p].ok) =>
         LET st == result'[p].val
         IN  /\ C38_SumByTool(st.calls_by_tool) = st.total_calls
             /\ st.successful_calls + st.failed_calls + st.cancelled_calls
                  <= st.total_calls]_vars

(* C39 *)

\* C39: apply() of a non-empty update on a session id that has no sessions
\* row returns success (the storage not failing under the statement), creates
\* no session row and leaves every stored row unchanged.
C39_UpdateOfMissingSession ==
  [][\A p \in Procs :
       LET b == result'[p].arg
       IN  (/\ Returns(p, "apply_update")
            /\ b.session_id \notin SessionIds(db)
            /\ \E f \in SessionFields : IsSet(b, f)) =>
             /\ db' = db
             /\ b.session_id \notin SessionIds(db')
             /\ faults' = faults => result'[p].ok]_vars

\* A description was set on a session that is not stored, and apply()
\* returned Ok.
C39_Witness ==
  \E p \in Procs :
    /\ result[p].kind = "apply_update" /\ result[p].ok
    /\ result[p].arg = Set(NewBuilder(GhostId), "description", "d2")
    /\ GhostId \notin SessionIds(db)

(* C40 *)

\* The table keys a model name contains, case put aside.
C40_Patterns(model_name) ==
  {k \in DOMAIN MODEL_CAPABILITY_DB :
     \E i \in 1..Len(model_name) :
       /\ i + Len(k) - 1 <= Len(model_name)
       /\ \A j \in 1..Len(k) :
            to_lowercase(<<model_name[i + j - 1]>>) = to_lowercase(<<k[j]>>)}

\* C40: get_model_capabilities is a function of the model name alone: for a
\* name that is no key of the table but contains one or more of its keys,
\* tool_calling and code_generation are what the call before for the same
\* name returned, whatever order the table is iterated in.
C40_SameForSameName ==
  [][(/\ capabilities /= NULL
      /\ capabilities' /= NULL
      /\ capabilities'[1].model_name = capabilities[1].model_name
      /\ capabilities[1].model_name \notin DOMAIN MODEL_CAPABILITY_DB
      /\ C40_Patterns(capabilities[1].model_name) /= {}) =>
       /\ capabilities'[1].tool_calling = capabilities[1].tool_calling
       /\ capabilities'[1].code_generation
            = capabilities[1].code_generation]_vars

====
